---- MODULE Spec2Model ----
(***************************************************************************)
(* Generation engine of keras_nlp.models.BartSeq2SeqLM                     *)
(* (src/keras_nlp/models/bart/bart_seq_2_seq_lm.py).                       *)
(*                                                                         *)
(* Several state machines share the module:                                *)
(*   Spec          one generate_step call on one batch: set-up, the        *)
(*                 sampler's loop driving next(), the output mask;         *)
(*   SpecCompile   the model object's compile() / make_generate_function() *)
(*                 / generate() life cycle of the cached generate function;*)
(*   SpecGenerate  one generate() call: input normalisation, the           *)
(*                 preprocess / generate / postprocess passes over the     *)
(*                 batches, output normalisation;                          *)
(*   SpecDecode    one generate_step call followed with its self- and      *)
(*                 cross-attention caches through call_decoder_with_cache; *)
(*   SpecReplay    _build_cache on a batch next to the same prompts        *)
(*                 replayed by single-token decoder calls.                 *)
(*                                                                         *)
(* Tensors are functions with the source's 0-based indexing: a [batch,     *)
(* length] tensor t is t[r][p], r \in Rows, p \in Positions.  An optional  *)
(* value (Python None or a value) is a set with at most one element.       *)
(***************************************************************************)
EXTENDS Integers, Sequences, FiniteSets, TLC

\* ---------------------------------------------------------------- bounds
\* Rows of one batch.
BatchSize == 2
\* Decoder maximum length (the static second dimension of decoder_token_ids).
MaxLen == 4
\* compile() calls after construction that the life-cycle model follows.
MaxCompiles == 3
\* Rows of one batch handed to generate().
MaxRows == 2
\* Batches of a tf.data.Dataset handed to generate().
MaxBatches == 3
\* Decoder layers of the backbone (backbone.num_layers).
NumLayers == 2
\* Ids of the vocabulary a sampler called alone selects from.
vocab_size == 7
\* Length of the prompt buffer handed to a sampler called alone.
length == 3
\* generate_step calls made one after the other on one model.
MaxCalls == 3
\* Tokenizer calls followed.
MaxLookups == 2
\* Ids looked up on either side of the vocabulary.
IdMargin == 2
\* Candidates per row a width-expanding sampler (beam search) keeps.
MaxBeams == 3

\* ----------------------------------------------------- program constants
\* Token ids of the documented preprocessed prompt, class docstring:
\* "decoder_token_ids": [[2, 0, 133, 1769, 2, 1, 1]]  (</s> <s> The fast </s> <pad>).
EndTokenId == 2
StartTokenId == 0
WordTokenId == 133
PadTokenId == 1

None == {}
Some(x) == {x}

Rows == 0 .. (BatchSize - 1)
Positions == 0 .. (MaxLen - 1)

VARIABLES
    \* --- one generate_step call
    inputs,             \* the `inputs` dict: decoder_token_ids, decoder_padding_mask
    end_token_id,       \* the end_token_id argument (None or an id)
    pc,                 \* "start", "loop" (inside the sampler), "done", "failed"
    index,              \* generate_step's local `index`, handed to the sampler
    prompt,             \* the sampler's prompt buffer (loop variable)
    loop_index,         \* the sampler's loop index (the `index` passed to next)
    outputs,            \* the returned dict, None until generate_step returns
    \* --- the model object
    generate_function,  \* self.generate_function: None or the built function
    sampler,            \* self._sampler
    run_eagerly,        \* self.run_eagerly
    jit_compile,        \* self.jit_compile
    xla_compatible,     \* is_xla_compatible(self), a fact of the environment
    has_jit_compile,    \* keras.Model has the jit_compile property (TF >= 2.12)
    sampler_arg,        \* the sampler= argument of the last compile(), None if omitted
    jit_compile_arg,    \* the jit_compile= argument of the last compile()
    compile_count,      \* compile() calls so far (the constructor's included)
    build_count,        \* generate functions built so far
    returned,           \* what the last make_generate_function() call returned
    used,               \* the function the last generate() call ran, and when
    \* --- one generate() call
    g_inputs,           \* the `inputs` argument
    has_preprocessor,   \* self.preprocessor is not None
    g_pc,               \* "call", "passes", "returned", "failed"
    g_batches,          \* `inputs` after _normalize_generate_inputs: the batches
    input_is_scalar,    \* the flag _normalize_generate_inputs returned
    g_stage,            \* per batch: "raw", "ready", "running", "done"
    g_outputs,          \* `outputs`, in the order the list was built
    g_result,           \* what generate() returned, None until it returns
    g_passes,           \* per batch: the passes it went through, in order
    \* --- the caches of one generate_step call
    cache,              \* the self-attention cache the sampler threads through next()
    cross_attention_cache,  \* generate_step's cross_attention_cache
    hidden_states,      \* generate_step's hidden_states, from _build_cache
    last_call,          \* the last call_decoder_with_cache call: arguments, results
    next_returned,      \* what the last next() call returned to the sampler
    call_log,           \* the calls the generate_step call has made, in order
    \* --- a prompt replayed by single-token decoder calls
    r_step,             \* single-token calls made so far
    r_cache,            \* the self-attention cache the last call returned
    r_cross,            \* the cross-attention cache the last call returned
    r_prev,             \* the caches the last call was given
    r_hidden,           \* per row, the hidden state each call returned
    r_logits,           \* per row, the logits each call returned
    r_again,            \* the result of making the last call once more
    \* --- a sampler called alone, as its tests call it
    s_pc,               \* "idle", "call", "loop", "done"
    s_start,            \* the index= argument
    s_end,              \* the end_token_id= argument (None or an id)
    s_index,            \* the loop variable `index`
    s_prompt,           \* the loop variable `prompt`, one row
    s_cache,            \* the loop variable `cache`
    s_logits,           \* the logits the last next() call returned
    s_calls,            \* the next() calls made: arguments, returned cache, token
    \* --- the tokenizer
    t_calls,            \* the calls made on the tokenizer and what each did
    \* --- a function of the model called alone
    d_call,             \* the call: its arguments and what it returned
    \* --- generate_step calls made one after the other on the same model
    decided,            \* the deterministic sampler: logits it has seen, token it selects
    history             \* the calls that returned: inputs and outputs

genVars == <<inputs, end_token_id, pc, index, prompt, loop_index, outputs>>
objVars == <<generate_function, sampler, run_eagerly, jit_compile,
             xla_compatible, has_jit_compile, sampler_arg, jit_compile_arg,
             compile_count, build_count,
             returned, used>>
callVars == <<g_inputs, has_preprocessor, g_pc, g_batches, input_is_scalar,
              g_stage, g_outputs, g_result, g_passes>>
decVars == <<cache, cross_attention_cache, hidden_states, last_call, next_returned,
            call_log>>
replayVars == <<r_step, r_cache, r_cross, r_prev, r_hidden, r_logits, r_again>>
samplerVars == <<s_pc, s_start, s_end, s_index, s_prompt, s_cache, s_logits, s_calls>>
tokVars == <<t_calls>>
aloneVars == <<d_call>>
againVars == <<decided, history>>
vars == <<genVars, objVars, callVars, decVars, replayVars, samplerVars, tokVars,
          aloneVars, againVars>>

\* ------------------------------------------------------------ the inputs
\* A right-padded decoder row with k known tokens, as the preprocessor lays
\* it out: </s> <s> word word ... then padding outside the mask.
PromptToken(p) ==
    IF p = 0 THEN EndTokenId ELSE IF p = 1 THEN StartTokenId ELSE WordTokenId

PromptRow(k) == [p \in Positions |-> IF p < k THEN PromptToken(p) ELSE PadTokenId]

MaskRow(k) == [p \in Positions |-> p < k]

\* Every batch whose rows have 0 .. MaxLen known tokens.
InputBatches ==
    { [decoder_token_ids    |-> [r \in Rows |-> PromptRow(ks[r])],
       decoder_padding_mask |-> [r \in Rows |-> MaskRow(ks[r])]] :
      ks \in [Rows -> 0 .. MaxLen] }

\* Ids a sampler can select at one position: the end token or another id.
SampledTokens == {WordTokenId, EndTokenId}

\* --------------------------------------------------------- generate_step
RECURSIVE SumUpTo(_, _)
\* sum of row[0 .. n-1]
SumUpTo(row, n) == IF n = 0 THEN 0 ELSE SumUpTo(row, n - 1) + row[n - 1]

\* tf.cast(decoder_padding_mask, "int32")
CastInt(b) == IF b THEN 1 ELSE 0

\* row_lengths = tf.math.reduce_sum(tf.cast(decoder_padding_mask, "int32"), axis=-1)
row_lengths(mask) ==
    [r \in Rows |-> SumUpTo([p \in Positions |-> CastInt(mask[r][p])], MaxLen)]

ReduceMin(f) == CHOOSE m \in {f[r] : r \in Rows} : \A r \in Rows : m <= f[r]

ReduceMax(f) == CHOOSE m \in {f[r] : r \in Rows} : \A r \in Rows : m >= f[r]

\* faulty variant: tf.math.reduce_max, the longest known prefix
StartIndexMax(mask) == ReduceMax(row_lengths(mask))

\* faulty variant: the first row's length, no reduction over the batch
StartIndexFirstRow(mask) == row_lengths(mask)[0]

\* index = tf.math.reduce_min(row_lengths)
StartIndex(mask) == ReduceMin(row_lengths(mask))

\* faulty variant: the sampler called without mask= (its default protects nothing)
SamplerMaskOmitted(mask) == [r \in Rows |-> [p \in Positions |-> FALSE]]

\* faulty variant: the mask passed with the opposite polarity
SamplerMaskNegated(mask) == [r \in Rows |-> [p \in Positions |-> ~mask[r][p]]]

\* self._sampler(..., mask=decoder_padding_mask, ...)
SamplerMask(mask) == mask

\* next(): cache_index = index - 1
CacheIndex(i) == i - 1

\* next(): tf.slice(prompt, [0, cache_index], [-1, 1]).  A begin outside the
\* tensor is rejected by the eager / graph kernel (InvalidArgumentError) and
\* clamped into range by the XLA-compiled one (a dynamic slice).
SliceOutcome(cache_index, jit) ==
    IF 0 <= cache_index /\ cache_index < MaxLen
    THEN "ok"
    ELSE IF jit THEN "clamped" ELSE "error"

\* end_locations = (decoder_token_ids == end_token_id) & (~decoder_padding_mask)
end_locations(ids, mask, end) ==
    [r \in Rows |-> [p \in Positions |->
        CastInt(ids[r][p] \in end /\ ~mask[r][p])]]

\* faulty variant: tf.math.cumsum(..., exclusive=False)
CumsumInclusive(row) == [p \in Positions |-> SumUpTo(row, p + 1)]

\* faulty variant: tf.math.cumsum(..., exclusive=True, reverse=True)
CumsumReverse(row) == [p \in Positions |-> SumUpTo(row, MaxLen) - SumUpTo(row, p + 1)]

\* tf.math.cumsum(end_locations, exclusive=True, axis=-1), one row
CumsumExclusive(row) == [p \in Positions |-> SumUpTo(row, p)]

\* faulty variant: the end locations themselves, no running sum
OverflowNoCumsum(locations) == locations

\* overflow
Overflow(locations) == [r \in Rows |-> CumsumExclusive(locations[r])]

\* faulty variant: ones shaped like one row of decoder_token_ids
OnesLikeFirstRow(ids, mask) == [p \in DOMAIN ids[0] |-> TRUE]

\* tf.ones_like(decoder_token_ids, dtype="bool")
OnesLike(ids, mask) == [r \in DOMAIN ids |-> [p \in DOMAIN ids[r] |-> TRUE]]

\* The output padding mask of generate_step.
OutputPaddingMask(ids, mask, end) ==
    IF end # None
    THEN LET overflow == Overflow(end_locations(ids, mask, end))
         IN  [r \in Rows |-> [p \in Positions |-> ~(overflow[r][p] # 0)]]
    ELSE OnesLike(ids, mask)

\* ------------------------------------------------- the sampler's contract
\* A row holds a new end token: one at a position outside the original prompt.
RowDone(p, mask, end, r) ==
    \E q \in Positions : p[r][q] \in end /\ ~mask[r][q]

\* The loop condition: keep going unless every row holds a new end token.
SamplerCond(p, mask, end) ==
    end = None \/ ~(\A r \in Rows : RowDone(p, mask, end, r))

\* The selected tokens written at position i; where mask is true the prompt's
\* own token is kept.
SamplerWrite(p, mask, i, next_token) ==
    [r \in Rows |->
        [p[r] EXCEPT ![i] = IF mask[r][i] THEN p[r][i] ELSE next_token[r]]]

\* maximum_iterations: the loop never goes past the decoder maximum length
LoopBound == MaxLen

Continue == SamplerCond(prompt, SamplerMask(inputs.decoder_padding_mask), end_token_id)
            /\ loop_index < LoopBound

\* --------------------------------------------------------------- actions
\* generate_step up to the sampler call: the start index, then the sampler
\* receives prompt=decoder_token_ids and index.
GenerateStepSetup ==
    /\ pc = "start"
    /\ index' = StartIndex(inputs.decoder_padding_mask)
    /\ prompt' = inputs.decoder_token_ids
    /\ loop_index' = StartIndex(inputs.decoder_padding_mask)
    /\ pc' = "loop"
    /\ UNCHANGED <<inputs, end_token_id, outputs, objVars, callVars, decVars, replayVars, samplerVars, tokVars, aloneVars, againVars>>

\* One iteration of the sampler: next(prompt, cache, index), a token selected
\* for every row, the write at position index, index + 1.
SamplerStep ==
    /\ pc = "loop"
    /\ Continue
    /\ SliceOutcome(CacheIndex(loop_index), jit_compile) # "error"
    /\ \E next_token \in [Rows -> SampledTokens] :
          prompt' = SamplerWrite(prompt, SamplerMask(inputs.decoder_padding_mask),
                                 loop_index, next_token)
    /\ loop_index' = loop_index + 1
    /\ UNCHANGED <<inputs, end_token_id, pc, index, outputs, objVars, callVars, decVars, replayVars, samplerVars, tokVars, aloneVars, againVars>>

\* The iteration's next() raises: the call fails and returns nothing.
SamplerStepFails ==
    /\ pc = "loop"
    /\ Continue
    /\ SliceOutcome(CacheIndex(loop_index), jit_compile) = "error"
    /\ pc' = "failed"
    /\ UNCHANGED <<inputs, end_token_id, index, prompt, loop_index, outputs, objVars, callVars, decVars, replayVars, samplerVars, tokVars, aloneVars, againVars>>

\* The sampler returns the prompt; generate_step computes the output mask and
\* returns the dict.
GenerateStepReturn ==
    /\ pc = "loop"
    /\ ~Continue
    /\ outputs' = Some([decoder_token_ids |-> prompt,
                        decoder_padding_mask |->
                            OutputPaddingMask(prompt, inputs.decoder_padding_mask,
                                              end_token_id)])
    /\ pc' = "done"
    /\ UNCHANGED <<inputs, end_token_id, index, prompt, loop_index, objVars, callVars, decVars, replayVars, samplerVars, tokVars, aloneVars, againVars>>

\* ------------------------------------------------------ the model object
\* Sampler names compile() is documented to accept.
SamplerNames == {"top_k", "greedy", "beam"}

FnId(gf) == {f.id : f \in gf}

\* The function make_generate_function builds when none is cached:
\* generate_step itself when run_eagerly, else tf.function(generate_step,
\* jit_compile=jit_compile).  A tf.function captures the sampler when it is
\* first traced; id and epoch tell function objects and compile() calls apart.
BuildGenerateFunction(eager, jit, n, epoch) ==
    Some([id     |-> n + 1,
          epoch  |-> epoch,
          kind   |-> IF eager THEN "generate_step" ELSE "tf_function",
          jit    |-> IF eager THEN FALSE ELSE jit,
          traced |-> None])

\* faulty variant: no early return, a function is built on every call
make_generate_function_always(gf, eager, jit, n, epoch) ==
    BuildGenerateFunction(eager, jit, n, epoch)

\* make_generate_function: the cached function when there is one
make_generate_function(gf, eager, jit, n, epoch) ==
    IF gf # None THEN gf ELSE BuildGenerateFunction(eager, jit, n, epoch)

\* faulty variant: compile() leaves the cached function in place
KeepGenerateFunction(gf) == gf

\* compile(): self.generate_function = None
ClearGenerateFunction(gf) == None

\* faulty variant: jit_compile=jit_compile and xla_compatible
CompileJitWhenEager(jit, xla, eager) == jit /\ xla

\* compile(): jit_compile=jit_compile and xla_compatible and not run_eagerly
CompileJit(jit, xla, eager) == jit /\ xla /\ ~eager

\* make_generate_function: jit_compile = getattr(self, "jit_compile", True)
GetattrJitCompile(has, jit) == IF has THEN jit ELSE TRUE

\* Calling the function: a tf.function not yet traced is traced now, with the
\* sampler the model holds at this moment.
Traced(gf, s) ==
    {IF f.kind = "tf_function" /\ f.traced = None
     THEN [f EXCEPT !.traced = Some(s)] ELSE f : f \in gf}

\* The sampler a call of the function runs: generate_step reads self._sampler
\* when it executes, a traced tf.function replays the one it captured.
EffectiveSampler(f, s) == IF f.kind = "generate_step" THEN Some(s) ELSE f.traced

MaxId(gf, n) == IF \E i \in FnId(gf) : i > n THEN n + 1 ELSE n

\* compile(..., sampler="top_k"): the default of the sampler parameter
DefaultSampler == "top_k"

\* The sampler= arguments of a compile() call: omitted, or one of the names.
SamplerArgs == {None} \cup {Some(s) : s \in SamplerNames}

\* faulty variant: an omitted sampler argument leaves the sampler in place
CompileSamplerKeep(arg, current) ==
    IF arg = None THEN current ELSE CHOOSE s \in arg : TRUE

\* compile(): self._sampler = get_sampler(sampler), sampler defaulting to "top_k"
CompileSampler(arg, current) ==
    IF arg = None THEN DefaultSampler ELSE CHOOSE s \in arg : TRUE

\* compile(run_eagerly=, jit_compile=, sampler=)
Compile ==
    /\ compile_count <= MaxCompiles
    /\ \E eager \in BOOLEAN, jit \in BOOLEAN, arg \in SamplerArgs :
          /\ run_eagerly' = eager
          /\ jit_compile' = CompileJit(jit, xla_compatible, eager)
          /\ sampler' = CompileSampler(arg, sampler)
          /\ sampler_arg' = arg
          /\ jit_compile_arg' = jit
    /\ generate_function' = ClearGenerateFunction(generate_function)
    /\ compile_count' = compile_count + 1
    /\ UNCHANGED <<xla_compatible, has_jit_compile, build_count, returned, used,
                   genVars, callVars, decVars, replayVars, samplerVars, tokVars, aloneVars, againVars>>

\* make_generate_function()
MakeGenerateFunction ==
    /\ generate_function' =
          make_generate_function(generate_function, run_eagerly,
                                 GetattrJitCompile(has_jit_compile, jit_compile),
                                 build_count, compile_count)
    /\ build_count' = MaxId(generate_function', build_count)
    /\ returned' = generate_function'
    /\ UNCHANGED <<sampler, run_eagerly, jit_compile, xla_compatible,
                   has_jit_compile, sampler_arg, jit_compile_arg, compile_count, used,
                   genVars,
                   callVars, decVars, replayVars, samplerVars, tokVars, aloneVars, againVars>>

\* generate(): make_generate_function(), then the function is called on the
\* batches.
Generate ==
    LET fn == make_generate_function(generate_function, run_eagerly,
                                     GetattrJitCompile(has_jit_compile, jit_compile),
                                     build_count, compile_count)
    IN  /\ generate_function' = Traced(fn, sampler)
        /\ build_count' = MaxId(fn, build_count)
        /\ used' = {[id          |-> f.id,
                     built       |-> f.epoch,
                     kind        |-> f.kind,
                     jit         |-> f.jit,
                     ran         |-> EffectiveSampler(f, sampler),
                     at          |-> compile_count,
                     sampler     |-> sampler,
                     sampler_arg |-> sampler_arg,
                     run_eagerly |-> run_eagerly,
                     jit_compile |-> jit_compile,
                     has_jit_compile |-> has_jit_compile] :
                    f \in generate_function'}
        /\ UNCHANGED <<sampler, run_eagerly, jit_compile, xla_compatible,
                       has_jit_compile, sampler_arg, jit_compile_arg, compile_count,
                       returned, genVars,
                       callVars, decVars, replayVars, samplerVars, tokVars, aloneVars, againVars>>

\* ------------------------------------------------------ one generate() call
\* A tensor or a Python value: what it is (a Python "str" or "list", a
\* "tensor", and on output an "ndarray"), its shape, and what it holds along
\* axis 0 (a rank-0 value holds one item).  An item records the input row it
\* comes from and how far it has been processed: "text", "tokens",
\* "generated" token ids, "decoded" text.
Tensor(kind, shape, rows) == [kind |-> kind, shape |-> shape, rows |-> rows]

Row(j, stage) == [src |-> j, stage |-> stage]

Rank(x) == Len(x.shape)

\* One element handed around by generate(): a dict (its keys in insertion
\* order) or a single value, held as one field with an empty key.
Dict(fields) == [dict |-> TRUE, fields |-> fields]

Plain(v) == [dict |-> FALSE, fields |-> << [key |-> "", val |-> v] >>]

Field(el, key) ==
    el.fields[CHOOSE i \in DOMAIN el.fields : el.fields[i].key = key].val

\* n rows of input text, numbered from first + 1
TextRows(first, n) == [j \in 1 .. n |-> Row(first + j, "text")]

\* What a caller passes for one text input: a Python string, a rank-0 string
\* tensor, a list of strings, a rank-1 string tensor.
TextValues ==
    {Tensor(k, <<>>, TextRows(0, 1)) : k \in {"str", "tensor"}}
    \cup {Tensor(k, <<n>>, TextRows(0, n)) : k \in {"list", "tensor"}, n \in 1 .. MaxRows}

\* A dict with "encoder_text" and "decoder_text", in either insertion order.
TextDicts ==
    {Dict(<< [key |-> ks[1], val |-> v1], [key |-> ks[2], val |-> v2] >>) :
        ks \in {<<"encoder_text", "decoder_text">>, <<"decoder_text", "encoder_text">>},
        v1 \in TextValues, v2 \in TextValues}

\* A preprocessed batch: the four dense [n, length] tensors.
TokenDict(enc, dec) ==
    Dict(<< [key |-> "encoder_token_ids",    val |-> enc],
            [key |-> "encoder_padding_mask", val |-> enc],
            [key |-> "decoder_token_ids",    val |-> dec],
            [key |-> "decoder_padding_mask", val |-> dec] >>)

TokenRows(first, n) ==
    Tensor("tensor", <<n, MaxLen>>, [j \in 1 .. n |-> Row(first + j, "tokens")])

\* Batch sizes of a dataset: 1 .. MaxBatches batches of 1 .. MaxRows rows.
BatchSizes == UNION {[1 .. m -> 1 .. MaxRows] : m \in 1 .. MaxBatches}

RECURSIVE RowsBefore(_, _)
\* rows of the batches before batch k
RowsBefore(ns, k) == IF k = 1 THEN 0 ELSE RowsBefore(ns, k - 1) + ns[k - 1]

Value(el) == [py |-> "value", batches |-> <<el>>]

Dataset(batches) == [py |-> "dataset", batches |-> batches]

\* The `inputs` of a generate() call: text when a preprocessor is attached,
\* preprocessed batches when none is; a single input, a batch, or a dataset.
GenerateInputs(preprocessor) ==
    IF preprocessor
    THEN {Value(Plain(v)) : v \in TextValues}
         \cup {Value(d) : d \in TextDicts}
         \cup {Dataset([k \in DOMAIN ns |->
                           Plain(Tensor("tensor", <<ns[k]>>,
                                        TextRows(RowsBefore(ns, k), ns[k])))]) :
               ns \in BatchSizes}
    ELSE {Value(TokenDict(TokenRows(0, n), TokenRows(0, n))) : n \in 1 .. MaxRows}
         \cup {Dataset([k \in DOMAIN ns |->
                           TokenDict(TokenRows(RowsBefore(ns, k), ns[k]),
                                     TokenRows(RowsBefore(ns, k), ns[k]))]) :
               ns \in BatchSizes}

\* tf.convert_to_tensor of a Python str or list
ConvertToTensor(x) ==
    IF x.kind \in {"str", "list"} THEN [x EXCEPT !.kind = "tensor"] ELSE x

\* x[tf.newaxis]
NewAxis(x) == [x EXCEPT !.shape = <<1>> \o x.shape]

\* _normalize_generate_inputs, the inner normalize(x)
normalize_input(x) ==
    LET t == ConvertToTensor(x)
    IN  IF t.kind = "tensor" /\ Rank(t) = 0
        THEN [x |-> NewAxis(t), x_is_scalar |-> TRUE]
        ELSE [x |-> t, x_is_scalar |-> FALSE]

\* _normalize_generate_inputs: a dataset is returned as it is; otherwise every
\* value (of every key, for a dict) is normalized and the flag is the one of
\* the last value normalized.
normalize_generate_inputs(x) ==
    IF x.py = "dataset"
    THEN [inputs |-> x.batches, input_is_scalar |-> FALSE]
    ELSE LET el == x.batches[1]
             n  == Len(el.fields)
         IN  [inputs |->
                  << [el EXCEPT !.fields =
                         [i \in 1 .. n |->
                             [key |-> el.fields[i].key,
                              val |-> normalize_input(el.fields[i].val).x]]] >>,
              input_is_scalar |-> normalize_input(el.fields[n].val).x_is_scalar]

\* Dense token ids of a text tensor: one row of MaxLen ids per text.
Tokens(v) ==
    Tensor("tensor", v.shape \o <<MaxLen>>,
           [j \in DOMAIN v.rows |-> Row(v.rows[j].src, "tokens")])

\* preprocessor.generate_preprocess: the encoder text and the decoder text
\* (a plain input is the encoder text, its decoder prompts are empty) become
\* the four dense tensors.
generate_preprocess(el) ==
    LET enc == IF el.dict THEN Field(el, "encoder_text") ELSE el.fields[1].val
        dec == IF el.dict THEN Field(el, "decoder_text") ELSE el.fields[1].val
    IN  TokenDict(Tokens(enc), Tokens(dec))

\* What the generate function is called on for batch el.
GenerateInput(el, preprocessor) ==
    IF preprocessor THEN generate_preprocess(el) ELSE el

\* The encoder and decoder tensors of a batch agree on the batch size.
BatchSizesAgree(el) ==
    Field(el, "encoder_token_ids").shape[1] = Field(el, "decoder_token_ids").shape[1]

Generated(v) ==
    [v EXCEPT !.rows = [j \in DOMAIN v.rows |-> Row(v.rows[j].src, "generated")]]

\* generate_step's return value for a batch: the decoder ids and the mask.
GenerateStepOutput(el) ==
    Dict(<< [key |-> "decoder_token_ids",
             val |-> Generated(Field(el, "decoder_token_ids"))],
            [key |-> "decoder_padding_mask",
             val |-> Generated(Field(el, "decoder_padding_mask"))] >>)

\* preprocessor.generate_postprocess: one string per row.
generate_postprocess(out) ==
    LET ids == Field(out, "decoder_token_ids")
    IN  Plain(Tensor("tensor", <<ids.shape[1]>>,
                     [j \in DOMAIN ids.rows |-> Row(ids.rows[j].src, "decoded")]))

RECURSIVE ConcatRows(_, _)
ConcatRows(xs, n) == IF n = 0 THEN <<>> ELSE ConcatRows(xs, n - 1) \o xs[n].rows

RECURSIVE SumDim0(_, _)
SumDim0(xs, n) == IF n = 0 THEN 0 ELSE SumDim0(xs, n - 1) + xs[n].shape[1]

\* tf.concat(x, axis=0)
Concat(xs) ==
    Tensor("tensor", <<SumDim0(xs, Len(xs))>> \o Tail(xs[1].shape),
           ConcatRows(xs, Len(xs)))

\* tf.squeeze(x, 0); it raises unless the first dimension is 1
Squeeze0(x) == [x EXCEPT !.shape = Tail(x.shape)]

\* faulty variant: the batch dimension is dropped whenever it has size 1
SqueezeWhenOne(x, scalar) == IF x.shape[1] = 1 THEN Squeeze0(x) ELSE x

\* tf.squeeze(x, 0) if input_is_scalar else x
SqueezeIfScalar(x, scalar) == IF scalar THEN Squeeze0(x) ELSE x

\* tensor_to_string_list(x) if is_string else x.numpy()
ToPython(x) ==
    IF \A j \in DOMAIN x.rows : x.rows[j].stage = "decoded"
    THEN [x EXCEPT !.kind = IF Rank(x) = 0 THEN "str" ELSE "list"]
    ELSE [x EXCEPT !.kind = "ndarray"]

\* _normalize_generate_outputs, the inner normalize(x)
normalize_output(xs, scalar) == ToPython(SqueezeIfScalar(Concat(xs), scalar))

\* _normalize_generate_outputs
normalize_generate_outputs(outs, scalar) ==
    IF outs[1].dict
    THEN Dict(<< [key |-> "decoder_token_ids",
                  val |-> normalize_output(
                              [i \in DOMAIN outs |-> Field(outs[i], "decoder_token_ids")],
                              scalar)],
                 [key |-> "decoder_padding_mask",
                  val |-> normalize_output(
                              [i \in DOMAIN outs |-> Field(outs[i], "decoder_padding_mask")],
                              scalar)] >>)
    ELSE Plain(normalize_output([i \in DOMAIN outs |-> outs[i].fields[1].val], scalar))

\* tf.squeeze(x, 0) is applied to tensors whose first dimension is 1.
SqueezeAccepts(outs, scalar) ==
    scalar => \A i \in DOMAIN outs[1].fields :
                  SumDim0([k \in DOMAIN outs |-> outs[k].fields[i].val], Len(outs)) = 1

\* faulty variant: end_token_id stays None
GenerateEndTokenIdUnset(preprocessor) == None

\* generate(): end_token_id = None, and with a preprocessor attached
\* self.preprocessor.tokenizer.end_token_id
GenerateEndTokenId(preprocessor) == IF preprocessor THEN Some(EndTokenId) ELSE None

\* faulty variant: the batches are taken from the last one backwards
NextBatchLast(stage) ==
    {k \in DOMAIN stage : stage[k] # "done" /\ \A i \in DOMAIN stage : i > k => stage[i] = "done"}

\* [generate(x) for x in inputs]: the next batch is the first one not yet
\* generated.
NextBatch(stage) ==
    {k \in DOMAIN stage : stage[k] # "done" /\ \A i \in 1 .. (k - 1) : stage[i] = "done"}

\* generate() up to the passes: make_generate_function(), then
\* _normalize_generate_inputs.
GenerateCall ==
    /\ g_pc = "call"
    /\ generate_function' =
          make_generate_function(generate_function, run_eagerly,
                                 GetattrJitCompile(has_jit_compile, jit_compile),
                                 build_count, compile_count)
    /\ build_count' = MaxId(generate_function', build_count)
    /\ g_batches' = normalize_generate_inputs(g_inputs).inputs
    /\ input_is_scalar' = normalize_generate_inputs(g_inputs).input_is_scalar
    /\ g_stage' = [k \in DOMAIN g_batches' |-> IF has_preprocessor THEN "raw" ELSE "ready"]
    /\ g_passes' = [k \in DOMAIN g_batches' |-> <<>>]
    /\ g_pc' = "passes"
    /\ UNCHANGED <<sampler, run_eagerly, jit_compile, xla_compatible, has_jit_compile,
                   sampler_arg, jit_compile_arg, compile_count, returned, used, genVars,
                   g_inputs, has_preprocessor, g_outputs, g_result, decVars, replayVars, samplerVars, tokVars, aloneVars, againVars>>

\* preprocess(x) of one batch.  The list of a single batch is preprocessed
\* before anything is generated; a dataset is mapped with AUTOTUNE parallelism
\* and prefetched, so any batch may be preprocessed ahead of its turn.
PreprocessBatch ==
    /\ g_pc = "passes"
    /\ \E k \in DOMAIN g_stage :
          /\ g_stage[k] = "raw"
          /\ g_stage' = [g_stage EXCEPT ![k] = "ready"]
          /\ g_passes' = [g_passes EXCEPT ![k] = Append(@, <<"preprocess">>)]
    /\ UNCHANGED <<genVars, objVars, g_inputs, has_preprocessor, g_pc, g_batches,
                   input_is_scalar, g_outputs, g_result, decVars, replayVars, samplerVars, tokVars, aloneVars, againVars>>

\* generate(x): the generate function is called on the next batch; a
\* tf.function is traced on its first call.
GenerateBatchStart ==
    /\ g_pc = "passes"
    /\ \A k \in DOMAIN g_stage : g_stage[k] # "running"
    /\ \E k \in NextBatch(g_stage) :
          /\ g_stage[k] = "ready"
          /\ g_stage' = [g_stage EXCEPT ![k] = "running"]
          /\ g_passes' = [g_passes EXCEPT ![k] =
                             Append(@, <<"generate", GenerateEndTokenId(has_preprocessor)>>)]
    /\ generate_function' = Traced(generate_function, sampler)
    /\ UNCHANGED <<sampler, run_eagerly, jit_compile, xla_compatible, has_jit_compile,
                   sampler_arg, jit_compile_arg, compile_count, build_count, returned, used,
                   genVars,
                   g_inputs, has_preprocessor, g_pc, g_batches, input_is_scalar,
                   g_outputs, g_result, decVars, replayVars, samplerVars, tokVars, aloneVars, againVars>>

\* The call on the batch returns; its output is appended to `outputs`.
GenerateBatchFinish ==
    /\ g_pc = "passes"
    /\ \E k \in DOMAIN g_stage :
          /\ g_stage[k] = "running"
          /\ BatchSizesAgree(GenerateInput(g_batches[k], has_preprocessor))
          /\ g_outputs' = Append(g_outputs,
                                 GenerateStepOutput(
                                     GenerateInput(g_batches[k], has_preprocessor)))
          /\ g_stage' = [g_stage EXCEPT ![k] = "done"]
    /\ UNCHANGED <<genVars, objVars, g_inputs, has_preprocessor, g_pc, g_batches,
                   input_is_scalar, g_result, g_passes, decVars, replayVars, samplerVars, tokVars, aloneVars, againVars>>

\* The call on the batch raises: encoder and decoder inputs disagree on the
\* batch size.
GenerateBatchFails ==
    /\ g_pc = "passes"
    /\ \E k \in DOMAIN g_stage :
          /\ g_stage[k] = "running"
          /\ ~BatchSizesAgree(GenerateInput(g_batches[k], has_preprocessor))
    /\ g_pc' = "failed"
    /\ UNCHANGED <<genVars, objVars, g_inputs, has_preprocessor, g_batches,
                   input_is_scalar, g_stage, g_outputs, g_result, g_passes, decVars, replayVars, samplerVars, tokVars, aloneVars, againVars>>

\* The rest of generate() once every batch is generated: the postprocess pass
\* over `outputs` when a preprocessor is attached, then
\* _normalize_generate_outputs and the return.
GenerateReturn ==
    /\ g_pc = "passes"
    /\ \A k \in DOMAIN g_stage : g_stage[k] = "done"
    /\ LET outs == IF has_preprocessor
                   THEN [i \in DOMAIN g_outputs |-> generate_postprocess(g_outputs[i])]
                   ELSE g_outputs
       IN  /\ SqueezeAccepts(outs, input_is_scalar)
           /\ g_result' = Some(normalize_generate_outputs(outs, input_is_scalar))
    /\ g_passes' = IF has_preprocessor
                   THEN [k \in DOMAIN g_passes |-> Append(g_passes[k], <<"postprocess">>)]
                   ELSE g_passes
    /\ g_pc' = "returned"
    /\ UNCHANGED <<genVars, objVars, g_inputs, has_preprocessor, g_batches,
                   input_is_scalar, g_stage, g_outputs, decVars, replayVars, samplerVars, tokVars, aloneVars, againVars>>

\* ------------------------------------------------ the decoder and its caches
\* The decoder is followed row by row (the layers act on every row of the
\* batch alone).  Its float tensors are symbolic terms: a tuple that starts
\* with the name of the computation and lists what the result is computed
\* from, so two results are equal exactly when they are the same computation
\* of the same operands.
Layers == 1 .. NumLayers

\* The content of an optional value that is not None.
IndexOf(opt) == CHOOSE u \in opt : TRUE

\* One cache position: a key and a value, zeros when never written.
ZeroEntry == [key |-> <<"zeros">>, value |-> <<"zeros">>]

\* _initialize_cache, one row: zeros of shape [num_layers, 2, max_length, ...]
\* for the self-attention cache and the same over the encoder length (held as
\* one entry per layer) for the cross-attention cache.
ZeroSelfCache == [i \in Layers |-> [p \in Positions |-> ZeroEntry]]

ZeroCrossCache == [i \in Layers |-> ZeroEntry]

\* _initialize_cache, one row: both caches, zero-filled
initialize_cache == [self |-> ZeroSelfCache, cross |-> ZeroCrossCache]

\* call_encoder: the encoder hidden states of row r
call_encoder(r) == <<"encoder_hidden_states", r>>

\* decoder_embeddings_add / layer_norm / dropout of the token embedding and
\* the position embedding
Embedding(token, position) == <<"embedding", token, position>>

\* The window length of a [window] tensor, a function on 0 .. w - 1.
Width(x) == Cardinality(DOMAIN x)

\* A dynamic slice (or update) of `size` positions starting at `start` in a
\* tensor of MaxLen positions: a start outside the tensor is clamped into it.
ClampStart(start, size) ==
    IF start < 0 THEN 0 ELSE IF start > MaxLen - size THEN MaxLen - size ELSE start

\* faulty variant: positions relative to the window, whatever the update index
PositionIndexRelative(start_index, j) == j

\* faulty variant: the position comes from a counter of the steps taken so far
PositionFromCounter(start_index, j) == r_step + j

\* decoder_position_embedding(token_embedding, start_index=
\* self_attention_cache_update_index): the absolute position of window offset j
PositionIndex(start_index, j) == start_index + j

Embeddings(tokens, update_index) ==
    [j \in DOMAIN tokens |->
        Embedding(tokens[j],
                  IF update_index = None THEN j
                  ELSE ClampStart(PositionIndex(IndexOf(update_index), j), 1))]

\* Key and value a layer computes from its input x at one position.
KeyValue(i, x) == [key |-> <<"key", i, x>>, value |-> <<"value", i, x>>]

\* Cross-attention key and value of a layer: computed from the encoder output.
CrossKeyValue(i, enc) == [key |-> <<"cross_key", i, enc>>, value |-> <<"cross_value", i, enc>>]

\* The layer's self-attention cache once the window x is written at update
\* index u: the window's positions hold the new keys and values, every other
\* position is as it was.
WriteSelf(c, i, x, u) ==
    LET s == ClampStart(u, Width(x))
    IN  [p \in Positions |->
            IF s <= p /\ p < s + Width(x) THEN KeyValue(i, x[p - s]) ELSE c[p]]

\* The cache positions the query at window offset j attends to: the causal
\* mask admits 0 .. u + j; when it admits none the softmax is uniform over
\* all positions.
Attended(c, u, j) ==
    IF u + j < 0
    THEN [q \in 1 .. MaxLen |-> c[q - 1]]
    ELSE [q \in 1 .. (IF u + j < MaxLen THEN u + j + 1 ELSE MaxLen) |-> c[q - 1]]

\* transformer_decoder_layer_{i}: cached self-attention (the window's keys
\* and values are written into the cache first, then read back with the
\* earlier positions), cross-attention on the stored cache or, with an update
\* index, on the cache computed from the encoder output.
transformer_decoder_layer(i, x, enc, sc, su, cc, cu) ==
    LET next_self  == IF su = None THEN sc ELSE WriteSelf(sc, i, x, IndexOf(su))
        next_cross == IF cu = None THEN cc ELSE CrossKeyValue(i, enc)
    IN  [x |-> [j \in DOMAIN x |->
                   <<"layer", i, x[j],
                     IF su = None
                     THEN [q \in 1 .. (j + 1) |-> KeyValue(i, x[q - 1])]
                     ELSE Attended(next_self, IndexOf(su), j),
                     next_cross>>],
         self  |-> next_self,
         cross |-> next_cross]

\* faulty variant: layer i's caches are kept in the slot of the next layer
CacheSlotShifted(i) == (i % NumLayers) + 1

\* self_attention_caches[i], cross_attention_caches[i]: layer i's slot
CacheSlot(i) == i

RECURSIVE DecoderStack(_, _, _, _, _, _, _)
\* The loop over the layers, after layer i: the layer's output and the two
\* lists of per-layer caches, a slot being replaced only when the cache has
\* an update index.
DecoderStack(i, enc, tokens, sc, su, cc, cu) ==
    IF i = 0
    THEN [x |-> Embeddings(tokens, su), self |-> sc, cross |-> cc]
    ELSE LET prev  == DecoderStack(i - 1, enc, tokens, sc, su, cc, cu)
             layer == transformer_decoder_layer(i, prev.x, enc,
                                                prev.self[CacheSlot(i)], su,
                                                prev.cross[CacheSlot(i)], cu)
         IN  [x     |-> layer.x,
              self  |-> IF su # None
                        THEN [prev.self EXCEPT ![CacheSlot(i)] = layer.self]
                        ELSE prev.self,
              cross |-> IF cu # None
                        THEN [prev.cross EXCEPT ![CacheSlot(i)] = layer.cross]
                        ELSE prev.cross]

\* faulty variant: the cross-attention cache is replaced whenever the
\* self-attention cache has an update index
CallDecoderCrossFollowsSelf(enc, tokens, sc, su, cc, cu) ==
    LET out == DecoderStack(NumLayers, enc, tokens, sc, su, cc, su)
    IN  [logits                |-> [j \in DOMAIN tokens |-> <<"logits", out.x[j]>>],
         hidden_states         |-> out.x,
         self_attention_cache  |-> out.self,
         cross_attention_cache |-> out.cross]

\* call_decoder_with_cache on one row
call_decoder_with_cache(enc, tokens, sc, su, cc, cu) ==
    LET out == DecoderStack(NumLayers, enc, tokens, sc, su, cc, cu)
    IN  [logits                |-> [j \in DOMAIN tokens |-> <<"logits", out.x[j]>>],
         hidden_states         |-> out.x,
         self_attention_cache  |-> out.self,
         cross_attention_cache |-> out.cross]

\* The caches of a row once _build_cache has run on a prompt of k known tokens.
SeededCaches(k) ==
    LET built == call_decoder_with_cache(call_encoder(0), PromptRow(k),
                                         ZeroSelfCache, Some(0), ZeroCrossCache, Some(0))
    IN  [self |-> built.self_attention_cache, cross |-> built.cross_attention_cache]

\* Caches a caller can hand to call_decoder_with_cache: as _initialize_cache
\* makes them, or seeded by an earlier call.
GivenCaches ==
    {[self |-> ZeroSelfCache, cross |-> ZeroCrossCache]}
        \cup {SeededCaches(k) : k \in 1 .. MaxLen}

\* The decoder_token_ids of a call and the update index that goes with them
\* when the self-attention cache is updated: a whole row from index 0, or the
\* one token at position q with index q.
DecoderWindows ==
    {[tokens |-> PromptRow(k), index |-> 0] : k \in 0 .. MaxLen}
        \cup {[tokens |-> [j \in {0} |-> PromptToken(q)], index |-> q] : q \in Positions}

\* call_decoder_with_cache called on one row, each update index given or None.
DecoderCall ==
    /\ d_call = None
    /\ \E w \in DecoderWindows, given \in GivenCaches, self_update, cross_update \in BOOLEAN :
        LET su == IF self_update THEN Some(w.index) ELSE None
            cu == IF cross_update THEN Some(0) ELSE None
        IN  d_call' = Some([fn          |-> "call_decoder_with_cache",
                            tokens      |-> w.tokens,
                            self        |-> given.self,
                            self_index  |-> su,
                            cross       |-> given.cross,
                            cross_index |-> cu,
                            result      |-> call_decoder_with_cache(
                                                call_encoder(0), w.tokens,
                                                given.self, su, given.cross, cu)])
    /\ UNCHANGED <<genVars, objVars, callVars, decVars, replayVars, samplerVars,
                   tokVars, againVars>>

\* _build_cache: the encoder pass, zero caches, one decoder pass over the
\* whole decoder_token_ids with both update indices 0.
build_cache(ids) ==
    [r \in Rows |->
        call_decoder_with_cache(call_encoder(r), ids[r],
                                initialize_cache.self, Some(0),
                                initialize_cache.cross, Some(0))]

\* faulty variant: next() recomputes the cross-attention cache at every step
NextCrossIndexZero == Some(0)

\* next(): cross_attention_cache_update_index=None
NextCrossIndex == None

\* next(): tf.slice(prompt, [0, cache_index], [-1, 1]), one row
NextWindow(p, r, cache_index) == [j \in {0} |-> p[r][ClampStart(cache_index, 1)]]

\* next(): the call_decoder_with_cache call it makes, row by row
next_decoder_call(p, c, i) ==
    [r \in Rows |->
        call_decoder_with_cache(call_encoder(r), NextWindow(p, r, CacheIndex(i)),
                                c[r], Some(CacheIndex(i)),
                                cross_attention_cache[r], NextCrossIndex)]

\* faulty variant: the window axis is kept
SqueezeKept(x) == x

\* tf.squeeze(x, axis=1) of a [batch, 1, ...] tensor, one row: the one
\* position of the window
SqueezeAxis1(x) == x[0]

\* next(prompt, cache, index), row by row: what it returns to the sampler
next(p, c, i) ==
    LET res == next_decoder_call(p, c, i)
    IN  [r \in Rows |->
            [logits        |-> SqueezeAxis1(res[r].logits),
             hidden_states |-> SqueezeAxis1(res[r].hidden_states),
             cache         |-> res[r].self_attention_cache]]

\* One call in the order of calls: the function, the window it was given and
\* the update indices (None where it takes none), the caches it allocated.
Logged(fn, width, su, cu, allocated) ==
    [fn |-> fn, width |-> width, self_index |-> su, cross_index |-> cu,
     allocated |-> allocated]

\* The calls _build_cache makes, in order.
BuildCacheCalls ==
    <<Logged("call_encoder", None, None, None, None),
      Logged("_initialize_cache", None, None, None, Some(initialize_cache)),
      Logged("call_decoder_with_cache", Some(MaxLen), Some(0), Some(0), None)>>

\* faulty variant: next() runs the encoder again before the decoder step
NextCallsWithEncoder(i) ==
    <<Logged("next", None, None, None, None),
      Logged("call_encoder", None, None, None, None),
      Logged("call_decoder_with_cache", Some(1), Some(CacheIndex(i)), NextCrossIndex, None)>>

\* The calls next(prompt, cache, index) makes, in order.
NextCalls(i) ==
    <<Logged("next", None, None, None, None),
      Logged("call_decoder_with_cache", Some(1), Some(CacheIndex(i)), NextCrossIndex, None)>>

\* generate_step's encoder_hidden_states and encoder_padding_mask, by row
EncoderHiddenStates == [r \in Rows |-> call_encoder(r)]

EncoderPaddingMask == [r \in Rows |-> <<"encoder_padding_mask", r>>]

\* tf.shape(x)[0] of a tensor held by row
Shape0(x) == Cardinality(DOMAIN x)

\* faulty variant: tf.tile, the whole batch repeated one copy after the other
tf_tile(x, repeats) ==
    [j \in 0 .. (Shape0(x) * repeats - 1) |-> x[j % Shape0(x)]]

\* tf.repeat(x, repeats=repeats, axis=0): every row repeated in place
tf_repeat(x, repeats) ==
    [j \in 0 .. (Shape0(x) * repeats - 1) |-> x[j \div repeats]]

\* next(): repeat_tensor(x), batch_size being tf.shape(encoder_token_ids)[0]
repeat_tensor(x, num_samples, batch_size) ==
    IF Shape0(x) = num_samples THEN x ELSE tf_repeat(x, num_samples \div batch_size)

\* next() called by a sampler that keeps `beams` candidates per row: the
\* encoder-side tensors it passes to call_decoder_with_cache.
WidenedNext ==
    /\ pc = "loop"
    /\ d_call = None
    /\ \E beams \in 1 .. MaxBeams :
          LET num_samples == beams * BatchSize
          IN  d_call' = Some([fn          |-> "next",
                              num_samples |-> num_samples,
                              batch_size  |-> BatchSize,
                              stored      |-> cross_attention_cache,
                              encoder_hidden_states |->
                                  repeat_tensor(EncoderHiddenStates, num_samples, BatchSize),
                              encoder_padding_mask |->
                                  repeat_tensor(EncoderPaddingMask, num_samples, BatchSize),
                              cross_attention_cache |->
                                  repeat_tensor(cross_attention_cache, num_samples,
                                                BatchSize)])
    /\ UNCHANGED <<genVars, objVars, callVars, decVars, replayVars, samplerVars,
                   tokVars, againVars>>

\* What a call_decoder_with_cache call over the batch was given and returned.
CallRecord(kind, i, tokens, su, cu, res) ==
    [kind          |-> kind,
     index         |-> i,
     tokens        |-> tokens,
     self_index    |-> su,
     cross_index   |-> cu,
     logits        |-> [r \in Rows |-> res[r].logits],
     hidden_states |-> [r \in Rows |-> res[r].hidden_states]]

\* faulty variant: the cache built for the previous call is handed to the
\* sampler
SamplerCacheLeftOver(built) ==
    IF history = <<>>
    THEN built
    ELSE LET before == build_cache(history[Len(history)].inputs.decoder_token_ids)
         IN  [r \in Rows |-> before[r].self_attention_cache]

\* self._sampler(..., cache=self_attention_cache, ...): the cache _build_cache
\* returned in this call
SamplerCache(built) == built

\* generate_step up to the sampler call, caches included: _build_cache, the
\* row lengths and the start index.
GenerateStepBuildCache ==
    /\ pc = "start"
    /\ LET built == build_cache(inputs.decoder_token_ids)
       IN  /\ cache' = SamplerCache([r \in Rows |-> built[r].self_attention_cache])
           /\ cross_attention_cache' = [r \in Rows |-> built[r].cross_attention_cache]
           /\ hidden_states' = [r \in Rows |-> built[r].hidden_states]
           /\ last_call' = Some(CallRecord("build", 0, inputs.decoder_token_ids,
                                            Some(0), Some(0), built))
    /\ call_log' = BuildCacheCalls
    /\ index' = StartIndex(inputs.decoder_padding_mask)
    /\ prompt' = inputs.decoder_token_ids
    /\ loop_index' = StartIndex(inputs.decoder_padding_mask)
    /\ pc' = "loop"
    /\ UNCHANGED <<inputs, end_token_id, outputs, objVars, callVars, next_returned,
                   replayVars, samplerVars, tokVars, aloneVars, againVars>>

\* One iteration of the sampler with the cache it threads through next(): the
\* decoder step on the token at index - 1, then the selected token written at
\* index.  The decoder does not couple the rows, so one selection is followed
\* for all of them.
DecodeStep ==
    /\ pc = "loop"
    /\ Continue
    /\ SliceOutcome(CacheIndex(loop_index), jit_compile) # "error"
    /\ LET res == next_decoder_call(prompt, cache, loop_index)
           out == next(prompt, cache, loop_index)
       IN  /\ cache' = [r \in Rows |-> out[r].cache]
           /\ next_returned' = Some(out)
           /\ last_call' = Some(CallRecord("next", loop_index,
                                           [r \in Rows |->
                                               NextWindow(prompt, r, CacheIndex(loop_index))],
                                           Some(CacheIndex(loop_index)),
                                           NextCrossIndex, res))
    /\ call_log' = call_log \o NextCalls(loop_index)
    /\ \E t \in SampledTokens :
          prompt' = SamplerWrite(prompt, SamplerMask(inputs.decoder_padding_mask),
                                 loop_index, [r \in Rows |-> t])
    /\ loop_index' = loop_index + 1
    /\ UNCHANGED <<inputs, end_token_id, pc, index, outputs, objVars, callVars,
                   cross_attention_cache, hidden_states, replayVars, samplerVars, tokVars, aloneVars, againVars>>

\* The iteration's next() raises in tf.slice.
DecodeStepFails ==
    /\ pc = "loop"
    /\ Continue
    /\ SliceOutcome(CacheIndex(loop_index), jit_compile) = "error"
    /\ pc' = "failed"
    /\ call_log' = Append(call_log, Logged("next", None, None, None, None))
    /\ UNCHANGED <<inputs, end_token_id, index, prompt, loop_index, outputs, objVars,
                   callVars, cache, cross_attention_cache, hidden_states, last_call,
                   next_returned, replayVars, samplerVars, tokVars, aloneVars, againVars>>

\* The sampler returns; generate_step returns the ids and the output mask.
DecodeReturn ==
    /\ pc = "loop"
    /\ ~Continue
    /\ outputs' = Some([decoder_token_ids |-> prompt,
                        decoder_padding_mask |->
                            OutputPaddingMask(prompt, inputs.decoder_padding_mask,
                                              end_token_id)])
    /\ pc' = "done"
    /\ UNCHANGED <<inputs, end_token_id, index, prompt, loop_index, objVars,
                   callVars, decVars, replayVars, samplerVars, tokVars, aloneVars, againVars>>

\* ------------------------------------ generate_step called again and again
\* A decoder row of k known tokens that starts with a word after </s>, no <s>.
WordsRow(k) ==
    [p \in Positions |->
        IF p < k THEN (IF p = 0 THEN EndTokenId ELSE WordTokenId) ELSE PadTokenId]

\* The batches of successive calls: every row the same prompt, of either
\* layout, with the last position left to generate.
AgainBatches ==
    { [decoder_token_ids    |-> [r \in Rows |-> IF words THEN WordsRow(k) ELSE PromptRow(k)],
       decoder_padding_mask |-> [r \in Rows |-> MaskRow(k)]] :
      k \in {MaxLen - 1}, words \in BOOLEAN }

\* The token a deterministic sampler (greedy) selects for the logits of a
\* step: the one it selected when it saw these logits before, any token the
\* first time.
Selections(logits) ==
    IF \E n \in DOMAIN decided : decided[n].logits = logits
    THEN {decided[n].token : n \in {m \in DOMAIN decided : decided[m].logits = logits}}
    ELSE SampledTokens

\* One iteration of a deterministic sampler: next(), then the token selected
\* for its logits written at the index.
GreedyStep ==
    /\ pc = "loop"
    /\ Continue
    /\ SliceOutcome(CacheIndex(loop_index), jit_compile) # "error"
    /\ LET res    == next_decoder_call(prompt, cache, loop_index)
           out    == next(prompt, cache, loop_index)
           logits == [r \in Rows |-> out[r].logits]
       IN  /\ cache' = [r \in Rows |-> out[r].cache]
           /\ next_returned' = Some(out)
           /\ last_call' = Some(CallRecord("next", loop_index,
                                           [r \in Rows |->
                                               NextWindow(prompt, r, CacheIndex(loop_index))],
                                           Some(CacheIndex(loop_index)),
                                           NextCrossIndex, res))
           /\ \E t \in Selections(logits) :
                 /\ prompt' = SamplerWrite(prompt, SamplerMask(inputs.decoder_padding_mask),
                                           loop_index, [r \in Rows |-> t])
                 /\ decided' = IF \E n \in DOMAIN decided : decided[n].logits = logits
                               THEN decided
                               ELSE Append(decided, [logits |-> logits, token |-> t])
    /\ call_log' = call_log \o NextCalls(loop_index)
    /\ loop_index' = loop_index + 1
    /\ UNCHANGED <<inputs, end_token_id, pc, index, outputs, objVars, callVars,
                   cross_attention_cache, hidden_states, replayVars, samplerVars,
                   tokVars, aloneVars, history>>

\* The call has returned; generate_step is called again on the same model.
GenerateStepAgain ==
    /\ pc = "done"
    /\ Len(history) + 1 < MaxCalls
    /\ history' = Append(history, [inputs |-> inputs, outputs |-> outputs])
    /\ inputs' \in AgainBatches
    /\ pc' = "start"
    /\ index' = 0
    /\ prompt' = inputs'.decoder_token_ids
    /\ loop_index' = 0
    /\ outputs' = None
    /\ UNCHANGED <<end_token_id, objVars, callVars, decVars, replayVars, samplerVars,
                   tokVars, aloneVars, decided>>

\* ------------------------------------------- single-step replay of a prompt
\* The cross-attention update index of replay step i: the first step computes
\* the cross-attention cache, the later ones reuse it.
ReplayCrossIndex(i) == IF i = 0 THEN Some(0) ELSE None

\* Replay step i on every row: the token at position i, update index i.
ReplayCall(i, c, x) ==
    [r \in Rows |->
        call_decoder_with_cache(call_encoder(r),
                                [j \in {0} |-> inputs.decoder_token_ids[r][i]],
                                c[r], Some(i), x[r], ReplayCrossIndex(i))]

\* The next single-token call of the replay, from the caches the previous one
\* returned (zero caches at first).
ReplayStep ==
    /\ r_step < MaxLen
    /\ LET res == ReplayCall(r_step, r_cache, r_cross)
       IN  /\ r_cache' = [r \in Rows |-> res[r].self_attention_cache]
           /\ r_cross' = [r \in Rows |-> res[r].cross_attention_cache]
           /\ r_hidden' = [r \in Rows |-> Append(r_hidden[r], res[r].hidden_states[0])]
           /\ r_logits' = [r \in Rows |-> Append(r_logits[r], res[r].logits[0])]
    /\ r_prev' = [cache |-> r_cache, cross |-> r_cross]
    /\ r_step' = r_step + 1
    /\ r_again' = None
    /\ UNCHANGED <<genVars, objVars, callVars, decVars, samplerVars, tokVars, aloneVars, againVars>>

\* The last call made once more with the same inputs and update index, given
\* the caches the first call was given or the caches it returned.
RepeatCall ==
    /\ r_step >= 1
    /\ \E given \in {"original", "returned"} :
          LET c   == IF given = "original" THEN r_prev
                     ELSE [cache |-> r_cache, cross |-> r_cross]
              res == ReplayCall(r_step - 1, c.cache, c.cross)
          IN  r_again' = Some([given         |-> given,
                               logits        |-> [r \in Rows |-> res[r].logits[0]],
                               hidden_states |-> [r \in Rows |-> res[r].hidden_states[0]],
                               cache  |-> [r \in Rows |-> res[r].self_attention_cache],
                               cross  |-> [r \in Rows |-> res[r].cross_attention_cache]])
    /\ UNCHANGED <<genVars, objVars, callVars, decVars,
                   r_step, r_cache, r_cross, r_prev, r_hidden, r_logits, samplerVars, tokVars, aloneVars, againVars>>

\* ------------------------------------------------ the sampler, called alone
\* top_k_sampler_test.py calls a TopKSampler on one row with a `next` of its
\* own.  The test's `next` computes nothing from the prompt, so next() is
\* followed by its contract: any logits of a small family, and a cache that
\* is the given cache with the step just taken added to it.
Vocab == 0 .. (vocab_size - 1)

SamplerPositions == 0 .. (length - 1)

\* faulty variant: k is the whole vocabulary, nothing is cut off
KWholeVocabulary == vocab_size

\* TopKSampler(k=5, temperature=1.0)
K == 5

\* prompt = tf.fill((batch_size, length), char_lookup["z"]): the last id
SuppliedPrompt == [p \in SamplerPositions |-> vocab_size - 1]

\* mask=None, the sampler's default: no position is protected
DefaultMask == [p \in SamplerPositions |-> FALSE]

\* The cache the caller hands in: no step taken.
SuppliedCache == <<>>

\* logits = tf.range(vocab_size, 0, -1): each id progressively less likely
Descending == [v \in Vocab |-> vocab_size - v]

\* logits = tf.one_hot(c, vocab_size) * 1e9: id c favoured, the others tied
OneHot(c) == [v \in Vocab |-> IF v = c THEN 1 ELSE 0]

\* Logits with a different value for every id, the highest at id c - 1.
Rotated(c) == [v \in Vocab |-> (v + c) % vocab_size]

NextLogits ==
    {Descending} \cup {OneHot(c) : c \in Vocab} \cup {Rotated(c) : c \in Vocab}

\* next(prompt, cache, index) -> logits, hidden_states, cache
sampler_next(p, c, i, logits) == [logits |-> logits, cache |-> Append(c, i)]

\* tf.math.top_k: the place of id v when the ids are sorted from the highest
\* value down, ids of equal value in order of index.
TopKPlace(logits, v) ==
    Cardinality({u \in Vocab :
                    logits[u] > logits[v] \/ (logits[u] = logits[v] /\ u < v)})

\* tf.math.top_k(probabilities, k): the ids of the k highest values
top_k(logits, k) == {v \in Vocab : TopKPlace(logits, v) < k}

\* TopKSampler.get_next_token: a sample among the k most likely ids (softmax
\* keeps the order of the logits)
get_next_token(logits) == top_k(logits, K)

\* The sampler's loop condition: below the length, and no end token at an
\* unprotected position when an end token is given.
SamplerLoopCond ==
    /\ s_index < length
    /\ \/ s_end = None
       \/ ~(\E p \in SamplerPositions : s_prompt[p] \in s_end /\ ~DefaultMask[p])

\* faulty variant: every iteration is given the cache the caller supplied
LoopCacheGiven(given, result) == given

\* The loop variable `cache` after an iteration: what next() returned.
LoopCache(given, result) == result

\* sampler(next=next, prompt=prompt, cache=cache, index=s)
SamplerCall ==
    /\ s_pc = "call"
    /\ s_pc' = "loop"
    /\ s_index' = s_start
    /\ s_prompt' = SuppliedPrompt
    /\ s_cache' = SuppliedCache
    /\ UNCHANGED <<genVars, objVars, callVars, decVars, replayVars,
                   s_start, s_end, s_logits, s_calls, tokVars, aloneVars, againVars>>

\* One iteration: next() on the prompt buffer and the cache, the token
\* selected from its logits written at the index, the index advanced.
SamplerBody ==
    /\ s_pc = "loop"
    /\ SamplerLoopCond
    /\ \E logits \in NextLogits :
          LET res == sampler_next(s_prompt, s_cache, s_index, logits)
          IN  \E t \in get_next_token(res.logits) :
                 /\ s_prompt' = [s_prompt EXCEPT ![s_index] =
                                    IF DefaultMask[s_index] THEN s_prompt[s_index] ELSE t]
                 /\ s_cache' = LoopCache(s_cache, res.cache)
                 /\ s_logits' = Some(res.logits)
                 /\ s_calls' = Append(s_calls, [index    |-> s_index,
                                                prompt   |-> s_prompt,
                                                cache    |-> s_cache,
                                                returned |-> res.cache,
                                                token    |-> t])
    /\ s_index' = s_index + 1
    /\ UNCHANGED <<genVars, objVars, callVars, decVars, replayVars,
                   s_pc, s_start, s_end, tokVars, aloneVars, againVars>>

\* The loop is over: the sampler returns the prompt buffer.
SamplerReturn ==
    /\ s_pc = "loop"
    /\ ~SamplerLoopCond
    /\ s_pc' = "done"
    /\ UNCHANGED <<genVars, objVars, callVars, decVars, replayVars,
                   s_start, s_end, s_index, s_prompt, s_cache, s_logits, s_calls,
                   tokVars, aloneVars, againVars>>

\* ----------------------------------------- the tokenizer's vocabulary lookup
\* tokenizer.get_vocabulary() of the tokenizer the test builds, by id
\* (the word-boundary mark of sentencepiece is written _).
Vocabulary ==
    <<"<s>", "<pad>", "</s>", "<unk>", "_the", "_brown", "_earth", "_fox", "_is",
      "_quick", "_round", "<mask>">>

\* tokenizer.vocabulary_size()
vocabulary_size == Len(Vocabulary)

\* The ids handed to id_to_token: every id of the vocabulary and IdMargin ids
\* on either side of it.
LookupIds == (0 - IdMargin) .. (vocabulary_size + IdMargin - 1)

\* What a call did: the exception it raised or the value it returned.
Raises(e) == [raises |-> Some(e), returns |-> None]

Returns(x) == [raises |-> None, returns |-> Some(x)]

\* faulty variant: an id outside the vocabulary is looked up as the unknown token
IdToTokenUnchecked(id) ==
    Returns(IF 0 <= id /\ id < vocabulary_size THEN Vocabulary[id + 1] ELSE "<unk>")

\* tokenizer.id_to_token(id)
id_to_token(id) ==
    IF id < 0 \/ id >= vocabulary_size
    THEN Raises("ValueError")
    ELSE Returns(Vocabulary[id + 1])

\* One id_to_token call.
IdToTokenCall ==
    /\ Len(t_calls) < MaxLookups
    /\ \E id \in LookupIds :
          t_calls' = Append(t_calls, [call |-> "id_to_token", arg |-> Some(id),
                                      result |-> id_to_token(id)])
    /\ UNCHANGED <<genVars, objVars, callVars, decVars, replayVars, samplerVars, aloneVars, againVars>>

\* One vocabulary_size call.
VocabularySizeCall ==
    /\ Len(t_calls) < MaxLookups
    /\ t_calls' = Append(t_calls, [call |-> "vocabulary_size", arg |-> None,
                                   result |-> Returns(vocabulary_size)])
    /\ UNCHANGED <<genVars, objVars, callVars, decVars, replayVars, samplerVars, aloneVars, againVars>>

\* The object after __init__: generate_function = None, then the default
\* compile(jit_compile=is_xla_compatible(self)) with sampler="top_k".
ObjInit ==
    /\ xla_compatible \in BOOLEAN
    /\ has_jit_compile \in BOOLEAN
    /\ generate_function = None
    /\ sampler = CompileSampler(None, "top_k")
    /\ sampler_arg = None
    /\ jit_compile_arg = TRUE
    /\ run_eagerly = FALSE
    /\ jit_compile = CompileJit(xla_compatible, xla_compatible, FALSE)
    /\ compile_count = 1
    /\ build_count = 0
    /\ returned = None
    /\ used = None

GenInit ==
    /\ inputs \in InputBatches
    /\ end_token_id \in {None, Some(EndTokenId)}
    /\ pc = "start"
    /\ index = 0
    /\ prompt = inputs.decoder_token_ids
    /\ loop_index = 0
    /\ outputs = None

\* No generate() call under way.
CallIdle ==
    /\ has_preprocessor = TRUE
    /\ g_inputs = Value(Plain(Tensor("str", <<>>, TextRows(0, 1))))
    /\ g_pc = "call"
    /\ g_batches = <<>>
    /\ input_is_scalar = FALSE
    /\ g_stage = <<>>
    /\ g_outputs = <<>>
    /\ g_result = None
    /\ g_passes = <<>>

\* No decoder call made yet.
DecIdle ==
    /\ cache = None
    /\ cross_attention_cache = None
    /\ hidden_states = None
    /\ last_call = None
    /\ next_returned = None
    /\ call_log = <<>>

\* No replay under way.
ReplayIdle ==
    /\ r_step = 0
    /\ r_cache = None
    /\ r_cross = None
    /\ r_prev = None
    /\ r_hidden = None
    /\ r_logits = None
    /\ r_again = None

\* No replay step taken: zero caches.
ReplayStart ==
    /\ r_step = 0
    /\ r_cache = [r \in Rows |-> ZeroSelfCache]
    /\ r_cross = [r \in Rows |-> ZeroCrossCache]
    /\ r_prev = [cache |-> r_cache, cross |-> r_cross]
    /\ r_hidden = [r \in Rows |-> <<>>]
    /\ r_logits = [r \in Rows |-> <<>>]
    /\ r_again = None

\* No sampler called alone.
SamplerIdle ==
    /\ s_pc = "idle"
    /\ s_start = 0
    /\ s_end = None
    /\ s_index = 0
    /\ s_prompt = <<>>
    /\ s_cache = <<>>
    /\ s_logits = None
    /\ s_calls = <<>>

\* No call made on the tokenizer.
TokenizerIdle == t_calls = <<>>

\* No function called alone.
AloneIdle == d_call = None

\* No earlier generate_step call on the model.
AgainIdle == decided = <<>> /\ history = <<>>

\* One generate_step call on a freshly constructed model, XLA-compiled where
\* the environment is XLA compatible and run as a plain graph where it is not.
Init == GenInit /\ ObjInit /\ has_jit_compile = TRUE /\ CallIdle /\ DecIdle /\ ReplayIdle /\ SamplerIdle /\ TokenizerIdle /\ AloneIdle /\ AgainIdle

Next ==
    \/ GenerateStepSetup
    \/ SamplerStep
    \/ SamplerStepFails
    \/ GenerateStepReturn

Spec == Init /\ [][Next]_vars

\* The call is one thread of control: a step that can be taken is taken.
FairSpec == Spec /\ WF_vars(Next)

\* The life cycle of the model object, no generate_step call in progress.
InitCompile ==
    /\ ObjInit
    /\ GenInit
    /\ end_token_id = None
    /\ inputs.decoder_padding_mask = [r \in Rows |-> MaskRow(MaxLen)]
    /\ CallIdle
    /\ DecIdle
    /\ ReplayIdle /\ SamplerIdle /\ TokenizerIdle /\ AloneIdle /\ AgainIdle

NextCompile ==
    \/ Compile
    \/ MakeGenerateFunction
    \/ Generate

SpecCompile == InitCompile /\ [][NextCompile]_vars

\* One generate() call on a freshly constructed model, with or without a
\* preprocessor attached.
InitGenerate ==
    /\ ObjInit
    /\ has_jit_compile = TRUE
    /\ GenInit
    /\ end_token_id = None
    /\ inputs.decoder_padding_mask = [r \in Rows |-> MaskRow(MaxLen)]
    /\ has_preprocessor \in BOOLEAN
    /\ g_inputs \in GenerateInputs(has_preprocessor)
    /\ g_pc = "call"
    /\ g_batches = <<>>
    /\ input_is_scalar = FALSE
    /\ g_stage = <<>>
    /\ g_outputs = <<>>
    /\ g_result = None
    /\ g_passes = <<>>
    /\ DecIdle
    /\ ReplayIdle /\ SamplerIdle /\ TokenizerIdle /\ AloneIdle /\ AgainIdle

NextGenerate ==
    \/ GenerateCall
    \/ PreprocessBatch
    \/ GenerateBatchStart
    \/ GenerateBatchFinish
    \/ GenerateBatchFails
    \/ GenerateReturn

SpecGenerate == InitGenerate /\ [][NextGenerate]_vars

\* The decoder acts on every row alone and the start index is a minimum over
\* the rows, so the order of the rows in the batch carries nothing: batches
\* are taken with their rows in order of known length.
RowsInLengthOrder(mask) ==
    \A r \in Rows : r + 1 \in Rows => row_lengths(mask)[r] <= row_lengths(mask)[r + 1]

\* One generate_step call followed with its caches.
InitDecode ==
    /\ GenInit
    /\ RowsInLengthOrder(inputs.decoder_padding_mask)
    /\ end_token_id = None
    /\ ObjInit
    /\ has_jit_compile = TRUE
    /\ CallIdle
    /\ DecIdle
    /\ ReplayIdle /\ SamplerIdle /\ TokenizerIdle /\ AloneIdle /\ AgainIdle

NextDecode ==
    \/ GenerateStepBuildCache
    \/ DecodeStep
    \/ DecodeStepFails
    \/ DecodeReturn

SpecDecode == InitDecode /\ [][NextDecode]_vars

\* _build_cache on a batch, and the same prompts replayed token by token.
InitReplay ==
    /\ GenInit
    /\ RowsInLengthOrder(inputs.decoder_padding_mask)
    /\ end_token_id = None
    /\ ObjInit
    /\ has_jit_compile = TRUE
    /\ xla_compatible = TRUE
    /\ CallIdle
    /\ DecIdle
    /\ ReplayStart /\ SamplerIdle /\ TokenizerIdle /\ AloneIdle /\ AgainIdle

NextReplay ==
    \/ GenerateStepBuildCache
    \/ ReplayStep
    \/ RepeatCall

SpecReplay == InitReplay /\ [][NextReplay]_vars

\* A freshly constructed model on which nothing is called.
ModelIdle ==
    /\ ObjInit
    /\ xla_compatible = TRUE
    /\ has_jit_compile = TRUE
    /\ GenInit
    /\ end_token_id = None
    /\ inputs.decoder_padding_mask = [r \in Rows |-> MaskRow(MaxLen)]
    /\ CallIdle
    /\ DecIdle
    /\ ReplayIdle

\* One call of the sampler on a filled prompt, from any start index, with or
\* without an end token.
InitSampler ==
    /\ ModelIdle
    /\ TokenizerIdle /\ AloneIdle /\ AgainIdle
    /\ s_pc = "call"
    /\ s_start \in 0 .. length
    /\ s_end \in {None, Some(0)}
    /\ s_index = 0
    /\ s_prompt = SuppliedPrompt
    /\ s_cache = SuppliedCache
    /\ s_logits = None
    /\ s_calls = <<>>

NextSampler ==
    \/ SamplerCall
    \/ SamplerBody
    \/ SamplerReturn

SpecSampler == InitSampler /\ [][NextSampler]_vars

\* Calls on the tokenizer the test builds.
InitTokenizer ==
    /\ ModelIdle
    /\ SamplerIdle
    /\ TokenizerIdle /\ AloneIdle /\ AgainIdle

NextTokenizer ==
    \/ IdToTokenCall
    \/ VocabularySizeCall

SpecTokenizer == InitTokenizer /\ [][NextTokenizer]_vars

\* call_decoder_with_cache called alone on a freshly constructed model.
InitDecoderCall ==
    /\ ModelIdle
    /\ SamplerIdle
    /\ TokenizerIdle /\ AloneIdle /\ AgainIdle

NextDecoderCall == DecoderCall

SpecDecoderCall == InitDecoderCall /\ [][NextDecoderCall]_vars

\* generate_step calls one after the other on a freshly constructed model,
\* the sampler deterministic.
InitAgain ==
    /\ inputs \in AgainBatches
    /\ end_token_id = None
    /\ pc = "start"
    /\ index = 0
    /\ prompt = inputs.decoder_token_ids
    /\ loop_index = 0
    /\ outputs = None
    /\ ObjInit
    /\ xla_compatible = TRUE
    /\ has_jit_compile = TRUE
    /\ CallIdle
    /\ DecIdle
    /\ ReplayIdle
    /\ SamplerIdle
    /\ TokenizerIdle /\ AloneIdle /\ AgainIdle

NextAgain ==
    \/ GenerateStepBuildCache
    \/ GreedyStep
    \/ DecodeReturn
    \/ GenerateStepAgain

SpecAgain == InitAgain /\ [][NextAgain]_vars

\* One generate_step call whose sampler widens the batch.
NextWiden ==
    \/ GenerateStepBuildCache
    \/ WidenedNext

SpecWiden == InitDecode /\ [][NextWiden]_vars

\* ======================================================== the properties
InMask == inputs.decoder_padding_mask
InIds == inputs.decoder_token_ids

\* Known tokens of row r, counted as a set of positions.
KnownCount(r) == Cardinality({p \in Positions : InMask[r][p]})

\* Buffer ids holds a new end token in row r at position q.
NewEndAt(ids, r, q) == ids[r][q] \in end_token_id /\ ~InMask[r][q]

\* Row r has produced the end token outside its original prompt.
RowFinished(r) == \E q \in Positions : NewEndAt(prompt, r, q)

AllRowsFinished == end_token_id # None /\ \A r \in Rows : RowFinished(r)

\* C1. Prompt protection: at every position where the input
\* decoder_padding_mask is true the prompt buffer, and the decoder_token_ids
\* generate_step returns, hold the input's token, whatever the sampler selects
\* and however many steps the loop runs.
PromptNeverOverwritten ==
    /\ pc \in {"loop", "done"} =>
          \A r \in Rows, p \in Positions : InMask[r][p] => prompt[r][p] = InIds[r][p]
    /\ \A o \in outputs : \A r \in Rows, p \in Positions :
          InMask[r][p] => o.decoder_token_ids[r][p] = InIds[r][p]

\* C1 witness: known prefixes 2 and 4; the call returned with positions 2 and 3
\* of the shorter row generated and those of the longer row as supplied.
PromptNeverOverwrittenWitness ==
    /\ pc = "done"
    /\ KnownCount(0) = 2 /\ KnownCount(1) = 4
    /\ \A o \in outputs :
          /\ o.decoder_token_ids[0][2] = EndTokenId
          /\ o.decoder_token_ids[0][3] = WordTokenId
          /\ o.decoder_token_ids[1][2] = InIds[1][2]
          /\ o.decoder_token_ids[1][3] = InIds[1][3]

\* C2. Termination: every generate_step call eventually finishes; the loop
\* index starts at the shared start index (the shortest known prefix), grows by
\* exactly 1 per iteration, no iteration starts once the index has reached the
\* decoder maximum length or, with an end token, once every row has produced
\* it outside its prompt, and the loop is left only then.
LoopTerminates ==
    /\ <>(pc \in {"done", "failed"})
    /\ [][ /\ (pc = "start" /\ pc' = "loop") =>
                 /\ loop_index' = index'
                 /\ \A r \in Rows : loop_index' <= KnownCount(r)
                 /\ \E r \in Rows : loop_index' = KnownCount(r)
           /\ (pc = "loop" /\ loop_index' # loop_index) =>
                 /\ loop_index' = loop_index + 1
                 /\ loop_index < MaxLen
                 /\ ~AllRowsFinished
           /\ (pc = "loop" /\ pc' = "done") =>
                 (loop_index = MaxLen \/ AllRowsFinished) ]_vars

\* C2 witness: a call that returned before the maximum length, every row
\* having produced the end token.
LoopTerminatesWitness ==
    /\ pc = "done"
    /\ loop_index < MaxLen
    /\ loop_index > index
    /\ AllRowsFinished

\* C3. Early stopping is a batch-wide AND: while some row has not produced the
\* end token outside its prompt and the index is below the decoder maximum
\* length the loop takes another step and cannot return; a call that returned
\* below the maximum length has every row finished.
EarlyStopIsBatchWide ==
    /\ (pc = "loop" /\ loop_index < MaxLen /\ ~AllRowsFinished) =>
          /\ ENABLED (SamplerStep \/ SamplerStepFails)
          /\ ~ENABLED GenerateStepReturn
    /\ (pc = "done" /\ loop_index < MaxLen) => AllRowsFinished

\* C3 witness: one row finished, the other not, the loop still running below
\* the maximum length after at least one step.
EarlyStopIsBatchWideWitness ==
    /\ pc = "loop"
    /\ end_token_id # None
    /\ index < loop_index /\ loop_index < MaxLen
    /\ RowFinished(0) /\ ~RowFinished(1)

\* C4. Output mask with an end token: the returned decoder_padding_mask is true
\* at p exactly when no position q < p of the returned row holds end_token_id
\* with the input mask false at q.
OutputMaskUpToFirstNewEnd ==
    end_token_id # None =>
        \A o \in outputs : \A r \in Rows, p \in Positions :
            o.decoder_padding_mask[r][p] <=>
                ~(\E q \in 0 .. (p - 1) : NewEndAt(o.decoder_token_ids, r, q))

\* C4 witness: a returned row whose prompt starts with the end token inside the
\* mask, with a new end token at position 2: true up to 2, false at 3.
OutputMaskUpToFirstNewEndWitness ==
    /\ pc = "done" /\ end_token_id # None
    /\ \E r \in Rows : \A o \in outputs :
          /\ InMask[r][0] /\ o.decoder_token_ids[r][0] = EndTokenId
          /\ ~NewEndAt(o.decoder_token_ids, r, 1)
          /\ NewEndAt(o.decoder_token_ids, r, 2)
          /\ o.decoder_padding_mask[r][2]
          /\ ~o.decoder_padding_mask[r][3]
    /\ \E r \in Rows : \A o \in outputs : \A p \in Positions :
          o.decoder_padding_mask[r][p] /\ ~NewEndAt(o.decoder_token_ids, r, p)

\* C5. Output mask monotonicity: in every returned row, once the mask is false
\* at a position it is false at every later position, with or without an end
\* token.
OutputMaskMonotonic ==
    \A o \in outputs : \A r \in Rows, p \in Positions, q \in Positions :
        (p < q /\ ~o.decoder_padding_mask[r][p]) => ~o.decoder_padding_mask[r][q]

\* C5 witness: a returned row whose mask is true, then false.
OutputMaskMonotonicWitness ==
    /\ pc = "done"
    /\ \E r \in Rows : \A o \in outputs :
          /\ o.decoder_padding_mask[r][1]
          /\ ~o.decoder_padding_mask[r][2]
          /\ ~o.decoder_padding_mask[r][3]

\* The valid part of row r if generate_step returned the buffer ids: the token
\* where the output mask is true, nothing where it is false.
ValidPart(ids, r) ==
    [p \in Positions |->
        IF OutputPaddingMask(ids, InMask, end_token_id)[r][p]
        THEN Some(ids[r][p]) ELSE None]

\* C6. Finished rows are frozen: once a row has produced the end token outside
\* its prompt, no further step changes the valid part of that row, and the
\* returned row has that valid part; once every row has finished nothing more
\* is written: the positions from the loop index on keep their input value.
FinishedRowsFrozen ==
    /\ [][ \A r \in Rows :
              (pc = "loop" /\ end_token_id # None /\ RowFinished(r)) =>
                  /\ ValidPart(prompt', r) = ValidPart(prompt, r)
                  /\ \A o \in outputs' : \A p \in Positions :
                        ValidPart(prompt, r)[p] =
                            (IF o.decoder_padding_mask[r][p]
                             THEN Some(o.decoder_token_ids[r][p]) ELSE None) ]_vars
    /\ [](AllRowsFinished =>
             /\ ~ENABLED SamplerStep
             /\ \A o \in outputs : \A r \in Rows, p \in Positions :
                   p >= loop_index => o.decoder_token_ids[r][p] = InIds[r][p])

\* C6 witness: row 0 finished at position 1, the loop went on for row 1 up to
\* the maximum length, and the returned row 0 is valid up to position 1 only.
FinishedRowsFrozenWitness ==
    /\ pc = "done" /\ end_token_id # None
    /\ loop_index = MaxLen
    /\ NewEndAt(prompt, 0, 1)
    /\ ~RowFinished(1)
    /\ \A o \in outputs :
          /\ o.decoder_padding_mask[0][1]
          /\ ~o.decoder_padding_mask[0][2]
          /\ o.decoder_token_ids[0][3] = WordTokenId

\* C7. Shared start index: the index handed to the sampler is the minimum over
\* the rows of the number of true entries of the row's decoder_padding_mask.
SharedStartIndex ==
    pc # "start" =>
        /\ \A r \in Rows : index <= KnownCount(r)
        /\ \E r \in Rows : index = KnownCount(r)

\* C7 witness: known prefixes 2 and 4, the sampler entered at index 2.
SharedStartIndexWitness ==
    /\ pc = "loop"
    /\ KnownCount(0) = 2 /\ KnownCount(1) = 4
    /\ index = 2 /\ loop_index = 2

\* C8. No end token degrades gracefully: with end_token_id None the call does
\* not fail, it returns only once the index has reached the decoder maximum
\* length, and the returned decoder_padding_mask is true everywhere.
NoEndTokenNeverFails ==
    end_token_id = None =>
        /\ pc # "failed"
        /\ pc = "done" => loop_index = MaxLen
        /\ \A o \in outputs : \A r \in Rows, p \in Positions :
              o.decoder_padding_mask[r][p]

\* The function object generate_function holds, if any, is the one a build
\* would produce from the model's present configuration.
FunctionIsCurrent(f) ==
    /\ f.epoch = compile_count
    /\ (f.kind = "generate_step") = run_eagerly
    /\ has_jit_compile => f.jit = jit_compile
    /\ (~has_jit_compile /\ ~run_eagerly) => f.jit
    /\ f.traced \subseteq {sampler}

\* C9 as claimed: the function a generate() call runs was built after the most
\* recent compile() and reflects the sampler, run_eagerly and jit_compile of
\* that compile().
GenerateUsesCompileSettings ==
    \A u \in used :
        /\ u.built = u.at
        /\ u.ran = Some(u.sampler)
        /\ (u.kind = "generate_step") = u.run_eagerly
        /\ u.jit = u.jit_compile

\* C9, amended. The function a generate() call runs was built after the most
\* recent compile() and runs with the sampler and run_eagerly of that
\* compile(), and with its jit_compile wherever the model has a jit_compile
\* attribute; where it has none a compiled function is built with
\* jit_compile=True; every compile() sets generate_function to None.
NoStaleGenerateFunction ==
    /\ [](\A u \in used :
             /\ u.built = u.at
             /\ u.ran = Some(u.sampler)
             /\ (u.kind = "generate_step") = u.run_eagerly
             /\ u.has_jit_compile => u.jit = u.jit_compile
             /\ (~u.has_jit_compile /\ ~u.run_eagerly) => u.jit)
    /\ [](\A f \in generate_function : FunctionIsCurrent(f))
    /\ [][compile_count' # compile_count => generate_function' = None]_vars

\* C9 witness: a generate() call after a second compile() that changed the
\* sampler, running a function built after it.
NoStaleGenerateFunctionWitness ==
    /\ compile_count = 3
    /\ \E u \in used : u.at = 3 /\ u.built = 3 /\ u.ran = Some("greedy") /\ u.id = 2
    /\ sampler = "greedy"

\* C10. Lazy build and reuse: a function is built only when generate_function
\* is None; with no compile() in between, make_generate_function() and
\* generate() return and use the one cached function object and build nothing.
LazyBuildAndReuse ==
    [][ compile_count' = compile_count =>
          /\ generate_function # None =>
                /\ FnId(generate_function') = FnId(generate_function)
                /\ build_count' = build_count
          /\ build_count' # build_count =>
                /\ generate_function = None
                /\ build_count' = build_count + 1
          /\ returned' # returned => returned' = generate_function'
          /\ used' # used => {u.id : u \in used'} = FnId(generate_function')
          /\ generate_function' # None ]_vars

\* C10 witness: one function built, returned by make_generate_function() and
\* run by generate(), after two compile() calls and no other build since.
LazyBuildAndReuseWitness ==
    /\ build_count = 1
    /\ compile_count = 2
    /\ FnId(generate_function) = {1}
    /\ FnId(returned) = {1}
    /\ \E u \in used : u.id = 1 /\ u.at = 2

\* C11. Default sampler: a model constructed and not compiled again holds the
\* "top_k" sampler; every compile() call that omits the sampler argument sets
\* the sampler to "top_k", whatever an earlier compile() had selected; and a
\* generate() call made while the last compile() omitted the sampler runs
\* "top_k".
DefaultSamplerIsTopK ==
    /\ compile_count = 1 => sampler = "top_k"
    /\ sampler_arg = None => sampler = "top_k"
    /\ \A u \in used : u.sampler_arg = None => u.ran = Some("top_k")

\* C11 witness: compile(sampler="greedy"), then a compile() without a sampler,
\* then a generate() call that ran "top_k".
DefaultSamplerIsTopKWitness ==
    /\ compile_count = 3
    /\ sampler_arg = None
    /\ sampler = "top_k"
    /\ \E u \in used : u.at = 3 /\ u.built = 3 /\ u.ran = Some("top_k")
    /\ \E f \in returned : f.epoch = 2 /\ f.traced = Some("greedy")

\* The single element of a generate() input that is not a dataset.
InputElement == g_inputs.batches[1]

\* The input is one value, not a dict: a string or a string tensor.
PlainInput == g_inputs.py = "value" /\ ~InputElement.dict

\* The normalized value(s) of the returned result: the plain value or the
\* value of every key.
ResultValues(res) == {res.fields[i].val : i \in DOMAIN res.fields}

\* C12. Scalar in, scalar out: for a single rank-0 string input
\* _normalize_generate_inputs adds one leading dimension of size 1 and reports
\* input_is_scalar true, and generate() returns a single string, exactly that
\* dimension removed; for a batched input (a list, a tensor of rank >= 1, a
\* dict of such tensors) the flag is false, no dimension is added and the
\* result keeps the batch dimension, also for a batch of one row.
ScalarInScalarOut ==
    /\ PlainInput =>
          LET x == InputElement.fields[1].val
          IN  /\ g_pc # "call" =>
                    LET y == g_batches[1].fields[1].val
                    IN  IF Rank(x) = 0
                        THEN y.shape = <<1>> \o x.shape /\ input_is_scalar
                        ELSE y.shape = x.shape /\ ~input_is_scalar
              /\ \A res \in g_result : \A v \in ResultValues(res) :
                    IF Rank(x) = 0
                    THEN /\ v.kind = "str" /\ v.shape = <<>>
                         /\ Len(g_outputs) = 1
                         /\ generate_postprocess(g_outputs[1]).fields[1].val.shape
                                = <<1>> \o v.shape
                         /\ v.rows = <<Row(1, "decoded")>>
                    ELSE /\ v.kind = "list" /\ v.shape = x.shape
                         /\ Len(v.rows) = Len(x.rows)
    /\ (g_inputs.py = "value" /\ InputElement.dict
           /\ \A i \in DOMAIN InputElement.fields : Rank(InputElement.fields[i].val) >= 1) =>
          /\ g_pc # "call" =>
                /\ ~input_is_scalar
                /\ \A i \in DOMAIN InputElement.fields :
                      g_batches[1].fields[i].val.shape = InputElement.fields[i].val.shape
          /\ \A res \in g_result : \A v \in ResultValues(res) :
                Len(v.rows) = v.shape[1]
                /\ v.shape[1] = Field(GenerateInput(g_batches[1], has_preprocessor),
                                      "decoder_token_ids").shape[1]

\* C12 witness: generate("...") returned a str, and (in another run) a list of
\* one string returned a list of one string.
ScalarInScalarOutWitness ==
    /\ g_pc = "returned"
    /\ PlainInput
    /\ InputElement.fields[1].val.kind = "str"
    /\ input_is_scalar
    /\ g_batches[1].fields[1].val.shape = <<1>>
    /\ \E res \in g_result : res.fields[1].val = Tensor("str", <<>>, <<Row(1, "decoded")>>)

\* Input rows of a generate() call, over all batches.
TotalRows ==
    SumDim0([k \in DOMAIN g_batches |-> g_batches[k].fields[1].val], Len(g_batches))

\* C13. Streaming order: the batches of a dataset are generated one at a time
\* in input order (a batch is started only when every earlier batch has
\* finished, so at most one is running), the outputs are collected in that order,
\* and in the returned result row j comes from input row j.
StreamingOrder ==
    g_inputs.py = "dataset" =>
        /\ \A k \in DOMAIN g_stage :
              g_stage[k] \in {"running", "done"} =>
                  \A i \in 1 .. (k - 1) : g_stage[i] = "done"
        /\ \A k \in DOMAIN g_outputs :
              /\ g_stage[k] = "done"
              /\ \A i \in DOMAIN g_outputs[k].fields :
                    LET v == g_outputs[k].fields[i].val
                        x == g_batches[k].fields[1].val
                    IN  /\ Len(v.rows) = Len(x.rows)
                        /\ \A j \in DOMAIN v.rows : v.rows[j].src = x.rows[j].src
        /\ \A res \in g_result : \A v \in ResultValues(res) :
              /\ Len(v.rows) = TotalRows
              /\ v.shape[1] = TotalRows
              /\ \A j \in DOMAIN v.rows : v.rows[j].src = j

\* C13 witness: a dataset of three batches of 2, 1 and 2 rows, returned as
\* five strings in input order.
StreamingOrderWitness ==
    /\ g_pc = "returned"
    /\ g_inputs.py = "dataset"
    /\ has_preprocessor
    /\ Len(g_batches) = 3
    /\ g_batches[1].fields[1].val.shape = <<2>>
    /\ g_batches[2].fields[1].val.shape = <<1>>
    /\ g_batches[3].fields[1].val.shape = <<2>>
    /\ \E res \in g_result :
          res.fields[1].val =
              Tensor("list", <<5>>, [j \in 1 .. 5 |-> Row(j, "decoded")])

\* C14. Cache-seeding equivalence: for a row with at least one known token,
\* the single pass of _build_cache over the whole prompt and the replay by
\* single-token calls (call i feeds token i with self-attention update index
\* i, from zero caches, the first call computing the cross-attention cache)
\* give the same hidden state and the same logits at every known position
\* replayed so far, and the same key and value in every layer of the
\* self-attention cache at those positions.
CacheSeedingEquivalence ==
    pc = "loop" =>
        \A r \in Rows : \A p \in Positions :
            (p < r_step /\ p < KnownCount(r)) =>
                /\ r_hidden[r][p + 1] = hidden_states[r][p]
                /\ \A c \in last_call : r_logits[r][p + 1] = c.logits[r][p]
                /\ \A i \in Layers : r_cache[r][i][p] = cache[r][i][p]

\* C14 witness: a row whose prompt fills the decoder length, built and
\* replayed to the end; the last position agrees and is seeded in the last
\* layer.
CacheSeedingEquivalenceWitness ==
    /\ pc = "loop"
    /\ r_step = MaxLen
    /\ KnownCount(0) = MaxLen
    /\ r_hidden[0][MaxLen] = hidden_states[0][MaxLen - 1]
    /\ r_cache[0][NumLayers][MaxLen - 1] = cache[0][NumLayers][MaxLen - 1]
    /\ cache[0][NumLayers][MaxLen - 1] # ZeroEntry

\* C15. Step idempotence: the last decoder call made once more with the same
\* inputs and the same update index, given either the caches the first call
\* was given or the caches it returned, returns the logits, the hidden state
\* and the caches the first call returned.
StepIdempotent ==
    \A a \in r_again :
        /\ \A r \in Rows :
              /\ a.logits[r] = r_logits[r][r_step]
              /\ a.hidden_states[r] = r_hidden[r][r_step]
        /\ a.cache = r_cache
        /\ a.cross = r_cross

\* C15 witness: the third call of a replay repeated on the caches it returned.
StepIdempotentWitness ==
    /\ r_step = 3
    /\ \E a \in r_again :
          /\ a.given = "returned"
          /\ a.cache = r_cache
          /\ a.logits[0] = r_logits[0][3]
    /\ r_cache[0][1][2] # ZeroEntry
    /\ r_prev.cache[0][1][2] = ZeroEntry

\* C16. Self-attention cache write is confined to one position: a decode step
\* through next(prompt, cache, index) returns a self-attention cache that
\* differs from the one passed in at most at position index - 1, in every
\* layer.
SelfCacheWriteConfined ==
    [][ (pc = "loop" /\ loop_index' = loop_index + 1) =>
            \A r \in Rows, i \in Layers, p \in Positions :
                p # loop_index - 1 => cache'[r][i][p] = cache[r][i][p] ]_vars

\* C17. Cross-attention cache is written once: _build_cache computes it with
\* update index 0; from then on generate_step holds that cache unchanged,
\* every next() call passes cross-attention update index None and its layers
\* read the stored cache.
CrossCacheWrittenOnce ==
    /\ [](pc \in {"loop", "done", "failed"} =>
             /\ \A r \in Rows, i \in Layers :
                   cross_attention_cache[r][i] = CrossKeyValue(i, call_encoder(r))
             /\ \A c \in last_call :
                   /\ c.kind = "build" => c.cross_index = Some(0)
                   /\ c.kind = "next" =>
                         /\ c.cross_index = None
                         /\ \A r \in Rows :
                               c.hidden_states[r][0][5] =
                                   cross_attention_cache[r][NumLayers])
    /\ [][pc = "loop" => cross_attention_cache' = cross_attention_cache]_vars

\* C17 witness: a call that returned after at least two decode steps, the
\* cross-attention cache still the one computed from the encoder output.
CrossCacheWrittenOnceWitness ==
    /\ pc = "done"
    /\ loop_index >= index + 2
    /\ \E c \in last_call : c.kind = "next" /\ c.cross_index = None
    /\ cross_attention_cache[0][1] = CrossKeyValue(1, call_encoder(0))
    /\ cross_attention_cache[0][1] # ZeroEntry

\* ---------------------------------------------------------------- C18
\* C18: with k = 5, whatever logits next() returns, the token the sampler
\* writes into the prompt buffer at a step is one of the 5 ids with the
\* highest logits of that step: fewer than 5 ids have a higher logit than it.
\* The property is on the step just taken, so it covers every sampled position
\* at the time it is written.
TopKBoundary ==
    s_calls # <<>> =>
        LET last    == s_calls[Len(s_calls)]
            logits  == IndexOf(s_logits)
            written == s_prompt[last.index]
        IN  Cardinality({u \in Vocab : logits[u] > logits[written]}) < 5

\* The token just written is the fifth of the step's logits, all different,
\* and ids with lower logits were left out.
TopKBoundaryWitness ==
    /\ s_calls # <<>>
    /\ LET last    == s_calls[Len(s_calls)]
           logits  == IndexOf(s_logits)
           written == s_prompt[last.index]
       IN  /\ \A u, v \in Vocab : u # v => logits[u] # logits[v]
           /\ Cardinality({u \in Vocab : logits[u] > logits[written]}) = 4
           /\ \E u \in Vocab : logits[u] < logits[written]

\* ---------------------------------------------------------------- C19
\* The prompt buffer after the first n next() calls of the log.
PromptAfter(n) ==
    [p \in SamplerPositions |->
        IF s_start <= p /\ p < s_start + n
        THEN s_calls[p - s_start + 1].token
        ELSE SuppliedPrompt[p]]

\* C19: from start index s with no end token, next() is invoked once for each
\* index s, s + 1, ... in increasing order, each invocation is given the
\* prompt buffer and the cache the previous one left (the supplied ones at
\* first), the token selected at index i is written at position i, positions
\* below s stay as supplied, and when the sampler returns every index up to
\* length - 1 has had its invocation and its write.
SamplerLoopOrder ==
    (s_pc \in {"loop", "done"} /\ s_end = None) =>
        /\ \A n \in DOMAIN s_calls :
              /\ s_calls[n].index = s_start + n - 1
              /\ s_calls[n].prompt = PromptAfter(n - 1)
              /\ s_calls[n].cache =
                     IF n = 1 THEN SuppliedCache ELSE s_calls[n - 1].returned
        /\ s_prompt = PromptAfter(Len(s_calls))
        /\ s_index = s_start + Len(s_calls)
        /\ s_pc = "done" => Len(s_calls) = length - s_start

\* A call from an index inside the buffer has returned after two or more
\* next() calls, with a selection that differs from the supplied token.
SamplerLoopOrderWitness ==
    /\ s_pc = "done"
    /\ s_end = None
    /\ s_start > 0
    /\ Len(s_calls) >= 2
    /\ \A n \in DOMAIN s_calls : s_calls[n].token # SuppliedPrompt[s_calls[n].index]

\* ---------------------------------------------------------------- C20
\* The id_to_token calls made.
IdToTokenCalls == {n \in DOMAIN t_calls : t_calls[n].call = "id_to_token"}

\* C20: id_to_token(id) raises ValueError for every id that is negative or at
\* least vocabulary_size(), and returns a token for every id from 0 up to
\* vocabulary_size() - 1.
OutOfVocabularyRejected ==
    \A n \in IdToTokenCalls :
        LET id     == IndexOf(t_calls[n].arg)
            result == t_calls[n].result
        IN  IF id < 0 \/ id >= vocabulary_size
            THEN result.raises = Some("ValueError") /\ result.returns = None
            ELSE result.raises = None /\ result.returns # None

\* The first id past the vocabulary was rejected and the last id of the
\* vocabulary returned its token.
OutOfVocabularyRejectedWitness ==
    /\ \E n \in IdToTokenCalls :
          /\ t_calls[n].arg = Some(vocabulary_size)
          /\ t_calls[n].result.raises = Some("ValueError")
    /\ \E n \in IdToTokenCalls :
          /\ t_calls[n].arg = Some(vocabulary_size - 1)
          /\ t_calls[n].result.returns = Some("<mask>")

\* ---------------------------------------------------------------- C21
\* C21: every next(prompt, cache, index) feeds the decoder one token per row,
\* the token at position index - 1 of the prompt buffer it was given, with
\* self-attention update index index - 1 and cross-attention update index
\* None, and returns the logits and hidden states of that one position, the
\* window axis removed.
StepInput ==
    [][ (pc = "loop" /\ loop_index' = loop_index + 1) =>
            \E c \in last_call', o \in next_returned' :
                /\ c.kind = "next"
                /\ c.index = loop_index
                /\ c.self_index = Some(loop_index - 1)
                /\ c.cross_index = None
                /\ loop_index - 1 \in Positions
                /\ \A r \in Rows :
                      /\ DOMAIN c.tokens[r] = {0}
                      /\ c.tokens[r][0] = prompt[r][loop_index - 1]
                      /\ o[r].logits = c.logits[r][0]
                      /\ o[r].hidden_states = c.hidden_states[r][0] ]_vars

\* ---------------------------------------------------------------- C22
\* C22: in every generate_step call, whatever the batch and its padding mask
\* (a row with no known token included), each next() call uses a
\* self-attention update index index - 1 inside the decoder length.
CacheIndexInRange ==
    (pc = "loop" /\ Continue) =>
        (0 <= CacheIndex(loop_index) /\ CacheIndex(loop_index) < MaxLen)

\* ---------------------------------------------------------------- C23
\* The call_decoder_with_cache calls made alone.
DecoderCalls == {c \in d_call : c.fn = "call_decoder_with_cache"}

RECURSIVE OutputOfLayer(_, _)
\* The output sequence of layer i (of the embeddings for i = 0), read off the
\* hidden states h a call returned: a layer's output names its input.
OutputOfLayer(h, i) ==
    IF i = NumLayers
    THEN h
    ELSE [j \in DOMAIN h |-> OutputOfLayer(h, i + 1)[j][3]]

\* C23: call_decoder_with_cache returns the self-attention cache it was given
\* when the self-attention update index is None, and the cross-attention
\* cache it was given when the cross-attention update index is None; a cache
\* whose own update index is not None comes back as the layers' results,
\* whatever the other cache's index.
CachesPassThrough ==
    \A c \in DecoderCalls :
        LET h == c.result.hidden_states
        IN  /\ c.self_index = None => c.result.self_attention_cache = c.self
            /\ c.cross_index = None => c.result.cross_attention_cache = c.cross
            /\ c.self_index # None =>
                   \A i \in Layers, j \in DOMAIN h :
                       c.result.self_attention_cache[i][IndexOf(c.self_index) + j] =
                           KeyValue(i, OutputOfLayer(h, i - 1)[j])
            /\ c.cross_index # None =>
                   \A i \in Layers :
                       c.result.cross_attention_cache[i] = CrossKeyValue(i, call_encoder(0))

\* A call with a self-attention update index and no cross-attention update
\* index on zero caches: the self-attention cache came back changed, the
\* cross-attention cache as given.
CachesPassThroughWitness ==
    \E c \in DecoderCalls :
        /\ c.self_index # None
        /\ c.cross_index = None
        /\ c.cross = ZeroCrossCache
        /\ c.result.cross_attention_cache = ZeroCrossCache
        /\ c.result.self_attention_cache # c.self

\* ---------------------------------------------------------------- C24
\* C24: call_decoder_with_cache applies the layers in order, each on the
\* output of the one before (the first on the embeddings); layer i reads slot
\* i of the two caches and its caches are stored in slot i, so slot i of the
\* returned caches is slot i as given with layer i's write and nothing else.
LayerOrderAndSlots ==
    \A c \in DecoderCalls :
        LET h == c.result.hidden_states
        IN  \A i \in Layers :
                LET x_in  == OutputOfLayer(h, i - 1)
                    x_out == OutputOfLayer(h, i)
                IN  /\ \A j \in DOMAIN h :
                          /\ x_out[j][1] = "layer"
                          /\ x_out[j][2] = i
                          /\ x_in[j][1] = (IF i = 1 THEN "embedding" ELSE "layer")
                          /\ i > 1 => x_in[j][2] = i - 1
                          /\ x_out[j][5] = (IF c.cross_index = None
                                            THEN c.cross[i]
                                            ELSE CrossKeyValue(i, call_encoder(0)))
                          /\ c.self_index # None =>
                                 x_out[j][4] =
                                     Attended(c.result.self_attention_cache[i],
                                              IndexOf(c.self_index), j)
                    /\ c.result.self_attention_cache[i] =
                           (IF c.self_index = None
                            THEN c.self[i]
                            ELSE WriteSelf(c.self[i], i, x_in, IndexOf(c.self_index)))
                    /\ c.result.cross_attention_cache[i] =
                           (IF c.cross_index = None
                            THEN c.cross[i]
                            ELSE CrossKeyValue(i, call_encoder(0)))

\* A one-token call on seeded caches with a self-attention update index:
\* every layer's slot holds that layer's write at the index and the seeded
\* entries elsewhere.
LayerOrderAndSlotsWitness ==
    \E c \in DecoderCalls :
        /\ c.self_index = Some(1)
        /\ DOMAIN c.tokens = {0}
        /\ c.self = SeededCaches(MaxLen).self
        /\ \A i \in Layers :
              /\ c.result.self_attention_cache[i][1].key[2] = i
              /\ c.result.self_attention_cache[i][0] = c.self[i][0]
              /\ c.self[i][0] # ZeroEntry

\* ---------------------------------------------------------------- C25
\* The next() calls made by a width-expanding sampler.
WidenedCalls == {c \in d_call : c.fn = "next"}

\* C25: inside next, with a prompt of num_samples rows, num_samples a positive
\* multiple of batch_size, the encoder hidden states, the encoder padding mask
\* and the cross-attention cache passed to the decoder have num_samples rows
\* each, row j a copy of stored row j div (num_samples / batch_size); with
\* num_samples = batch_size they are the stored tensors; the stored
\* cross-attention cache is as it was before the call.
BatchWidening ==
    \A c \in WidenedCalls :
        LET per_row == c.num_samples \div c.batch_size
            samples == 0 .. (c.num_samples - 1)
        IN  /\ DOMAIN c.encoder_hidden_states = samples
            /\ DOMAIN c.encoder_padding_mask = samples
            /\ DOMAIN c.cross_attention_cache = samples
            /\ \A j \in samples :
                  /\ c.encoder_hidden_states[j] = call_encoder(j \div per_row)
                  /\ c.encoder_padding_mask[j] = EncoderPaddingMask[j \div per_row]
                  /\ c.cross_attention_cache[j] = cross_attention_cache[j \div per_row]
            /\ c.num_samples = c.batch_size =>
                  /\ c.encoder_hidden_states = EncoderHiddenStates
                  /\ c.encoder_padding_mask = EncoderPaddingMask
                  /\ c.cross_attention_cache = cross_attention_cache
            /\ cross_attention_cache = c.stored

\* A call with two or more candidates per row: the second sample is a copy of
\* the first row, the last one of the last row.
BatchWideningWitness ==
    \E c \in WidenedCalls :
        /\ c.num_samples >= 2 * c.batch_size
        /\ c.batch_size >= 2
        /\ c.encoder_hidden_states[1] = call_encoder(0)
        /\ c.encoder_hidden_states[c.num_samples - 1] = call_encoder(c.batch_size - 1)
        /\ c.cross_attention_cache[1] = cross_attention_cache[0]

\* ---------------------------------------------------------------- C26
\* The places of the log where function fn was called.
CallsOf(fn) == {n \in DOMAIN call_log : call_log[n].fn = fn}

\* C26: a generate_step call runs the encoder once, allocates both caches
\* zero-filled and runs the decoder once over the whole decoder prompt with
\* both update indices 0, all before the first next(); the loop makes no
\* encoder run and no allocation, every decoder step in it reuses the
\* cross-attention cache.
CacheBuiltOnce ==
    IF pc = "start"
    THEN call_log = <<>>
    ELSE /\ Len(call_log) >= 3
         /\ call_log[1].fn = "call_encoder"
         /\ call_log[2].fn = "_initialize_cache"
         /\ call_log[2].allocated = Some([self |-> ZeroSelfCache, cross |-> ZeroCrossCache])
         /\ call_log[3].fn = "call_decoder_with_cache"
         /\ call_log[3].width = Some(MaxLen)
         /\ call_log[3].self_index = Some(0)
         /\ call_log[3].cross_index = Some(0)
         /\ CallsOf("call_encoder") = {1}
         /\ CallsOf("_initialize_cache") = {2}
         /\ \A n \in CallsOf("next") : n > 3
         /\ \A n \in CallsOf("call_decoder_with_cache") :
               n > 3 => /\ call_log[n - 1].fn = "next"
                        /\ call_log[n].width = Some(1)
                        /\ call_log[n].cross_index = None

\* A call that returned after two or more next() calls.
CacheBuiltOnceWitness ==
    /\ pc = "done"
    /\ Cardinality(CallsOf("next")) >= 2
    /\ Cardinality(CallsOf("call_decoder_with_cache")) >= 3

\* ---------------------------------------------------------------- C27
\* C27: with a deterministic sampler, a generate_step call on a given input
\* returns the same result whatever calls were made on the model before it:
\* any two calls on the same input, the one that has just returned included,
\* returned the same token ids and padding mask.
NoStateAcrossCalls ==
    /\ \A a, b \in DOMAIN history :
          history[a].inputs = history[b].inputs =>
              history[a].outputs = history[b].outputs
    /\ pc = "done" =>
          \A a \in DOMAIN history :
              history[a].inputs = inputs => history[a].outputs = outputs

\* A call has returned on the input of the first call, after a call on
\* another input in between.
NoStateAcrossCallsWitness ==
    /\ pc = "done"
    /\ Len(history) >= 2
    /\ history[1].inputs = inputs
    /\ history[2].inputs # inputs
    /\ history[1].outputs = outputs

\* ---------------------------------------------------------------- C28
\* C28: the decoder_token_ids a generate_step call returns have the batch
\* size and the sequence length of the input decoder_token_ids, and the
\* decoder_padding_mask it returns has the shape of the returned
\* decoder_token_ids, with an end token and without one.
FixedOutputShape ==
    \A o \in outputs :
        /\ DOMAIN o.decoder_token_ids = DOMAIN InIds
        /\ \A r \in DOMAIN InIds :
              DOMAIN o.decoder_token_ids[r] = DOMAIN InIds[r]
        /\ DOMAIN o.decoder_padding_mask = DOMAIN o.decoder_token_ids
        /\ \A r \in DOMAIN o.decoder_token_ids :
              DOMAIN o.decoder_padding_mask[r] = DOMAIN o.decoder_token_ids[r]

\* A call without an end token has returned after generating tokens.
FixedOutputShapeWitness ==
    /\ pc = "done"
    /\ end_token_id = None
    /\ \E o \in outputs : o.decoder_token_ids # InIds

\* ---------------------------------------------------------------- C29
\* The dict with its keys in the opposite insertion order.
KeysReversed(el) ==
    LET n == Len(el.fields)
    IN  [el EXCEPT !.fields = [i \in 1 .. n |-> el.fields[n + 1 - i]]]

\* C29: for a dict input _normalize_generate_inputs adds a leading dimension
\* to exactly the values of rank 0, input_is_scalar is true exactly when the
\* dict's values were of rank 0, and the flag is the same for the dict with
\* its keys iterated in the opposite order; for a dataset the flag is false.
ScalarFlagForDicts ==
    g_pc # "call" =>
        /\ (g_inputs.py = "value" /\ InputElement.dict) =>
              /\ \A i \in DOMAIN InputElement.fields :
                    LET x == InputElement.fields[i].val
                    IN  g_batches[1].fields[i].val.shape =
                            IF Rank(x) = 0 THEN <<1>> \o x.shape ELSE x.shape
              /\ input_is_scalar <=>
                    \A i \in DOMAIN InputElement.fields :
                        Rank(InputElement.fields[i].val) = 0
              /\ input_is_scalar =
                    normalize_generate_inputs(Value(KeysReversed(InputElement))).input_is_scalar
        /\ g_inputs.py = "dataset" => ~input_is_scalar

\* ---------------------------------------------------------------- C30
\* The passes of a batch in generate()'s order, the generate function called
\* with the given end_token_id.
PassesInOrder(preprocessor, end) ==
    IF preprocessor
    THEN << <<"preprocess">>, <<"generate", end>>, <<"postprocess">> >>
    ELSE << <<"generate", end>> >>

\* s is the beginning of t
IsPrefix(s, t) == Len(s) <= Len(t) /\ s = SubSeq(t, 1, Len(s))

\* C30: with a preprocessor attached every batch goes through preprocess,
\* then the generate function with the end_token_id of the preprocessor's
\* tokenizer, then postprocess, in that order; with none attached the
\* generate function is the only pass, its end_token_id is None, and the
\* result is the decoder token ids with their padding mask.
PassOrder ==
    LET expected == PassesInOrder(has_preprocessor,
                                  IF has_preprocessor THEN Some(EndTokenId) ELSE None)
    IN  /\ \A k \in DOMAIN g_passes :
              /\ IsPrefix(g_passes[k], expected)
              /\ g_stage[k] \in {"running", "done"} =>
                    \E n \in DOMAIN g_passes[k] : g_passes[k][n][1] = "generate"
              /\ g_pc = "returned" => g_passes[k] = expected
        /\ ~has_preprocessor =>
              \A res \in g_result :
                  /\ res.dict
                  /\ [i \in DOMAIN res.fields |-> res.fields[i].key]
                        = <<"decoder_token_ids", "decoder_padding_mask">>
                  /\ \A i \in DOMAIN res.fields :
                        /\ res.fields[i].val.kind = "ndarray"
                        /\ \A j \in DOMAIN res.fields[i].val.rows :
                              res.fields[i].val.rows[j].stage = "generated"

\* generate() has returned on a dataset of several batches with a preprocessor
\* attached, every batch through its three passes.
PassOrderWitness ==
    /\ g_pc = "returned"
    /\ has_preprocessor
    /\ Len(g_passes) >= 2
    /\ \A k \in DOMAIN g_passes : Len(g_passes[k]) = 3

\* ---------------------------------------------------------------- C31
\* The functions make_generate_function() returned since the last compile().
ReturnedNow == {f \in returned : f.epoch = compile_count}

\* C31 as claimed: compile() enables jit compilation only when jit_compile is
\* requested, the environment is XLA compatible and run_eagerly is false;
\* with run_eagerly make_generate_function() returns generate_step itself,
\* uncompiled, and otherwise a compiled wrapper of generate_step that carries
\* the jit_compile setting compile() gave the model.
ExecutionMode ==
    /\ jit_compile => (jit_compile_arg /\ xla_compatible /\ ~run_eagerly)
    /\ \A f \in ReturnedNow :
          IF run_eagerly
          THEN f.kind = "generate_step" /\ ~f.jit
          ELSE f.kind = "tf_function" /\ f.jit = jit_compile

\* C31, amended: compile() enables jit compilation only when jit_compile is
\* requested, the environment is XLA compatible and run_eagerly is false;
\* with run_eagerly make_generate_function() returns generate_step itself,
\* uncompiled, and otherwise a compiled wrapper of generate_step that carries
\* the model's jit_compile setting where the model has a jit_compile
\* attribute and jit_compile=True where it has none.
ExecutionModeByAttribute ==
    /\ jit_compile => (jit_compile_arg /\ xla_compatible /\ ~run_eagerly)
    /\ \A f \in ReturnedNow :
          IF run_eagerly
          THEN f.kind = "generate_step" /\ ~f.jit
          ELSE /\ f.kind = "tf_function"
               /\ has_jit_compile => f.jit = jit_compile
               /\ ~has_jit_compile => f.jit

\* make_generate_function() has returned generate_step itself after a
\* compile(run_eagerly=True, jit_compile=True) in an XLA compatible
\* environment.
ExecutionModeByAttributeWitness ==
    /\ compile_count >= 2
    /\ run_eagerly
    /\ jit_compile_arg
    /\ xla_compatible
    /\ ~jit_compile
    /\ \E f \in ReturnedNow : f.kind = "generate_step"

====
